---- MODULE Spec2Model ----
(***************************************************************************)
(* Model of the evaluation orchestration core of the Response Evaluator    *)
(* Agent: DeepEvalEvaluator (evaluators.py) on top of PortkeyAPIClient     *)
(* (clients.py), with the constants of config.py and the models of         *)
(* models.py.                                                              *)
(*                                                                         *)
(* Conventions                                                             *)
(*  - Numbers are exact decimals in thousandths: 650 stands for 0.65,      *)
(*    -200 for -0.2.  A binary float differs from the decimal it stands    *)
(*    for by a rounding error that decides round(x, 2) when the decimal    *)
(*    lies halfway between two hundredths: there the result is either      *)
(*    neighbour (ties_up).                                                 *)
(*  - A text (Python str) is a sequence of atoms.  The atoms " ", "\t",    *)
(*    "\n" and "#" are the characters of that name, every other atom is    *)
(*    an opaque run of non-blank characters; <<>> is the empty string.     *)
(*  - An Optional[str] is a record [some, text].                           *)
(***************************************************************************)
EXTENDS Integers, Sequences, FiniteSets, TLC

(***************************************************************************)
(* Bounds of the model.                                                    *)
(***************************************************************************)
NumRequests == 2

ReqIds == 1..NumRequests

(***************************************************************************)
(* config.py                                                               *)
(***************************************************************************)
MAX_RETRIES == 3

RETRY_DELAY == 1000

METRIC_WEIGHTS ==
    [relevance |-> 180, accuracy |-> 150, completeness |-> 150,
     clarity |-> 120, structure |-> 80, consistency |-> 80,
     hallucination_detection |-> 120, context_adherence |-> 80,
     factual_grounding |-> 40]

(***************************************************************************)
(* Texts and optional texts.                                               *)
(***************************************************************************)
None == [some |-> FALSE, text |-> <<>>]

Some(t) == [some |-> TRUE, text |-> t]

Whitespace == {" ", "\t", "\n"}

RECURSIVE LStrip(_)
LStrip(t) ==
    IF t # <<>> /\ Head(t) \in Whitespace THEN LStrip(Tail(t)) ELSE t

RECURSIVE RStrip(_)
RStrip(t) ==
    IF t # <<>> /\ t[Len(t)] \in Whitespace
    THEN RStrip(SubSeq(t, 1, Len(t) - 1))
    ELSE t

\* str.strip()
Strip(t) == RStrip(LStrip(t))

\* str(n) for the small naturals that occur in messages
Str(n) ==
    CASE n = 0 -> "0" [] n = 1 -> "1" [] n = 2 -> "2" [] n = 3 -> "3"
      [] n = 4 -> "4" [] n = 5 -> "5" [] n = 6 -> "6" [] n = 7 -> "7"
      [] n = 8 -> "8" [] n = 9 -> "9" [] OTHER -> "many"

(***************************************************************************)
(* Python arithmetic on decimals.                                          *)
(***************************************************************************)
Min(a, b) == IF a < b THEN a ELSE b

Max(a, b) == IF a > b THEN a ELSE b

\* min(max(x, 0.0), 1.0)
Clamp(x) == Min(Max(x, 0), 1000)

\* the integer nearest to num/den; halfway, the upper one iff ties_up
RoundNearest(num, den, ties_up) ==
    LET q == num \div den
        r == num % den
    IN  IF 2 * r < den THEN q
        ELSE IF 2 * r > den THEN q + 1
        ELSE IF ties_up THEN q + 1 ELSE q

\* round(x, 2) of a value given in units of 1/scale; the result is in
\* thousandths
Round2(x, scale, ties_up) == 10 * RoundNearest(x * 100, scale, ties_up)

(***************************************************************************)
(* models.py: MetricScore.  score and confidence are declared ge=0.0,      *)
(* le=1.0 and reasoning Optional[str]; the constructor raises a            *)
(* ValidationError when a constraint is violated (a NaN satisfies no       *)
(* comparison).                                                            *)
(***************************************************************************)
MetricScore(metric, score, reasoning, confidence) ==
    [metric |-> metric, score |-> score, reasoning |-> reasoning,
     confidence |-> confidence]

\* a float: a decimal in thousandths, or NaN
Num(n) == [nan |-> FALSE, val |-> n]

NaN == [nan |-> TRUE, val |-> 0]

\* Field(..., ge=0.0, le=1.0)
FieldValid(x) == ~x.nan /\ x.val >= 0 /\ x.val <= 1000

ValidationErrorText == <<"validation error for MetricScore">>

(***************************************************************************)
(* Decoded JSON values (the result of json.loads).  kind is one of         *)
(* "absent" (the key is not in the enclosing object), "null", "bool",      *)
(* "num", "nan" (the literal NaN, which json.loads accepts), "str" and     *)
(* "object"; an object carries the members score, reasoning, confidence.   *)
(***************************************************************************)
JAbsent == [kind |-> "absent", num |-> 0, str |-> <<>>]

JNull == [kind |-> "null", num |-> 0, str |-> <<>>]

JBool(b) == [kind |-> "bool", num |-> IF b THEN 1000 ELSE 0, str |-> <<>>]

JNum(n) == [kind |-> "num", num |-> n, str |-> <<>>]

JNaN == [kind |-> "nan", num |-> 0, str |-> <<>>]

JStr(t) == [kind |-> "str", num |-> 0, str |-> t]

JObj(score, reasoning, confidence) ==
    [kind |-> "object", num |-> 0, str |-> <<>>, score |-> score,
     reasoning |-> reasoning, confidence |-> confidence]

\* the numeric strings float() accepts, with their values
NumericStrings == {<<"0.9">>, <<"0.25">>}

ParseNumeric(t) == IF t = <<"0.9">> THEN 900 ELSE 250

\* float(v): [raised, error, value]
Float(v) ==
    CASE v.kind = "num" -> [raised |-> FALSE, error |-> <<>>, value |-> Num(v.num)]
      [] v.kind = "bool" -> [raised |-> FALSE, error |-> <<>>, value |-> Num(v.num)]
      [] v.kind = "nan" -> [raised |-> FALSE, error |-> <<>>, value |-> NaN]
      [] v.kind = "str" ->
            IF v.str \in NumericStrings
            THEN [raised |-> FALSE, error |-> <<>>,
                  value |-> Num(ParseNumeric(v.str))]
            ELSE [raised |-> TRUE,
                  error |-> <<"could not convert string to float: ">> \o v.str,
                  value |-> NaN]
      [] OTHER ->
            [raised |-> TRUE,
             error |-> <<"float() argument must be a string or a real number">>,
             value |-> NaN]

\* min(max(x, 0.0), 1.0) on a float: every comparison with NaN is false, so
\* max(nan, 0.0) and min(nan, 1.0) return their first argument
ClampFloat(x) == IF x.nan THEN NaN ELSE Num(Clamp(x.val))

\* mutant of Round2Float: the score is clamped but not rounded
Round2FloatOmitted(x, ties_up) == x

\* round(x, 2) on a float
Round2Float(x, ties_up) ==
    IF x.nan THEN NaN ELSE Num(Round2(x.val, 1000, ties_up))

\* mutant of Truthy: only the boolean true proceeds
TruthyOnlyTrue(v) == v.kind = "bool" /\ v.num # 0

\* the truth value Python gives a decoded JSON value
Truthy(v) ==
    CASE v.kind = "bool" -> v.num # 0
      [] v.kind = "num" -> v.num # 0
      [] v.kind = "nan" -> TRUE
      [] v.kind = "str" -> v.str # <<>>
      [] v.kind = "object" -> TRUE
      [] OTHER -> FALSE

(***************************************************************************)
(* What a gateway call returns (response.choices[0].message.content): None *)
(* or a text.  The atom "members" inside the text stands for the           *)
(* serialised members  "key": value, ...  of a JSON object, and `members`  *)
(* is what json.loads makes of them: a function from the keys to decoded   *)
(* values, JAbsent for a key that does not occur.                          *)
(***************************************************************************)
expected_metrics ==
    <<"relevance", "accuracy", "completeness", "clarity", "structure",
      "consistency", "hallucination_detection", "context_adherence",
      "factual_grounding">>

MetricNames == {expected_metrics[i] : i \in 1..Len(expected_metrics)}

AllKeys == MetricNames \cup {"proceed", "reason", "notes"}

EmptyObject == [k \in AllKeys |-> JAbsent]

NullContent == [some |-> FALSE, text |-> <<>>, members |-> EmptyObject]

Content(text, members) == [some |-> TRUE, text |-> text, members |-> members]

\* str.find(c): the 0-based index of the first occurrence, -1 if none
Find(t, c) ==
    IF \E i \in 1..Len(t) : t[i] = c
    THEN (CHOOSE i \in 1..Len(t) :
              t[i] = c /\ \A j \in 1..(i - 1) : t[j] # c) - 1
    ELSE -1

\* mutant of RFind: the first occurrence instead of the last
RFindFirst(t, c) == Find(t, c)

\* str.rfind(c): the 0-based index of the last occurrence, -1 if none
RFind(t, c) ==
    IF \E i \in 1..Len(t) : t[i] = c
    THEN (CHOOSE i \in 1..Len(t) :
              t[i] = c /\ \A j \in (i + 1)..Len(t) : t[j] # c) - 1
    ELSE -1

\* t[a:b] for 0 <= a, b <= len(t)
Slice(t, a, b) == SubSeq(t, a + 1, b)

\* json.loads of a text that starts with "{" and ends with "}": the text
\* decodes iff, blanks aside, it is  { members }  or  { } ; [ok, object]
JsonLoads(json_content, members) ==
    LET dense == SelectSeq(json_content, LAMBDA a : a \notin Whitespace)
    IN  IF dense = <<"{", "members", "}">>
        THEN [ok |-> TRUE, object |-> members]
        ELSE IF dense = <<"{", "}">>
        THEN [ok |-> TRUE, object |-> EmptyObject]
        ELSE [ok |-> FALSE, object |-> EmptyObject]

JSONDecodeErrorText == <<"Expecting property name enclosed in double quotes">>

AttributeErrorText == <<"'NoneType' object has no attribute 'strip'">>

(***************************************************************************)
(* evaluators.py 323-334: _get_default_metric_scores                       *)
(***************************************************************************)
default_metrics ==
    <<"relevance", "accuracy", "completeness", "clarity", "structure",
      "consistency", "hallucination_detection", "context_adherence",
      "factual_grounding">>

\* mutant of _get_default_metric_scores: the list lacks its last metric
DefaultScoresWithoutLast(error_message) ==
    [i \in 1..(Len(default_metrics) - 1) |->
        MetricScore(default_metrics[i], 500, Some(error_message), 100)]

\* mutant of _get_default_metric_scores: the confidence of a missing metric
DefaultScoresConfidence03(error_message) ==
    [i \in 1..Len(default_metrics) |->
        MetricScore(default_metrics[i], 500, Some(error_message), 300)]

_get_default_metric_scores(error_message) ==
    [i \in 1..Len(default_metrics) |->
        MetricScore(default_metrics[i], 500, Some(error_message), 100)]

(***************************************************************************)
(* evaluators.py 189-235: the body of the loop over expected_metrics in    *)
(* _handle_evaluation_prompt.  The result is [raised, error, value]: the   *)
(* MetricScore appended for metric_name, or the exception the iteration    *)
(* raises.                                                                 *)
(***************************************************************************)
Appended(ms) == [raised |-> FALSE, error |-> <<>>, value |-> ms]

Raised(error) ==
    [raised |-> TRUE, error |-> error,
     value |-> MetricScore("", 0, None, 0)]

\* metric_data.get("reasoning", "No reasoning provided") handed to the
\* Optional[str] field: [valid, value]
ReasoningField(metric_data) ==
    CASE metric_data.reasoning.kind = "absent" ->
            [valid |-> TRUE, value |-> Some(<<"No reasoning provided">>)]
      [] metric_data.reasoning.kind = "null" ->
            [valid |-> TRUE, value |-> None]
      [] metric_data.reasoning.kind = "str" ->
            [valid |-> TRUE, value |-> Some(metric_data.reasoning.str)]
      [] OTHER -> [valid |-> FALSE, value |-> None]

RecordMetric(metric_name, metric_data, ties_up) ==
    LET score_float == Float(metric_data.score)
        score_value == Round2Float(ClampFloat(score_float.value), ties_up)
        confidence_float ==
            Float(IF metric_data.confidence.kind = "absent"
                  THEN JNum(800)
                  ELSE metric_data.confidence)
        confidence == ClampFloat(confidence_float.value)
        low == ~score_value.nan /\ score_value.val < 650
        reasoning == ReasoningField(metric_data)
    IN  IF score_float.raised THEN Raised(score_float.error)
        ELSE IF confidence_float.raised THEN Raised(confidence_float.error)
        ELSE IF ~FieldValid(score_value) \/ ~FieldValid(confidence)
                \/ (low /\ ~reasoning.valid)
        THEN Raised(ValidationErrorText)
        ELSE Appended(MetricScore(metric_name, score_value.val,
                                  IF low THEN reasoning.value ELSE None,
                                  confidence.val))

\* mutant of BareMetric: a bare number gets the default confidence of a record
BareMetricConfidence08(metric_name, metric_data, ties_up) ==
    LET score == IF metric_data.kind \in {"num", "bool", "nan"}
                 THEN Float(metric_data).value
                 ELSE Num(500)
        score_value == Round2Float(ClampFloat(score), ties_up)
    IN  IF ~FieldValid(score_value) THEN Raised(ValidationErrorText)
        ELSE Appended(MetricScore(metric_name, score_value.val,
                 IF score_value.val < 650
                 THEN Some(<<"Score provided without detailed reasoning">>)
                 ELSE None,
                 800))

BareMetric(metric_name, metric_data, ties_up) ==
    LET score == IF metric_data.kind \in {"num", "bool", "nan"}
                 THEN Float(metric_data).value
                 ELSE Num(500)
        score_value == Round2Float(ClampFloat(score), ties_up)
    IN  IF ~FieldValid(score_value) THEN Raised(ValidationErrorText)
        ELSE Appended(MetricScore(metric_name, score_value.val,
                 IF score_value.val < 650
                 THEN Some(<<"Score provided without detailed reasoning">>)
                 ELSE None,
                 700))

MetricFromData(metric_name, evaluation_data, ties_up) ==
    LET metric_data == evaluation_data[metric_name]
    IN  IF metric_data.kind # "absent"
        THEN IF metric_data.kind = "object" /\ metric_data.score.kind # "absent"
             THEN RecordMetric(metric_name, metric_data, ties_up)
             ELSE BareMetric(metric_name, metric_data, ties_up)
        ELSE Appended(MetricScore(metric_name, 500,
                 Some(<<"Metric ", metric_name, " not found in AI response">>),
                 300))

\* mutant of MetricLoop: an iteration that raises gives that metric the
\* default score and the loop goes on
MetricLoopKeepOthers(n, evaluation_data, ties_up) ==
    [raised |-> FALSE, error |-> <<>>,
     value |-> [i \in 1..n |->
         LET this == MetricFromData(expected_metrics[i], evaluation_data,
                                    ties_up)
         IN  IF this.raised
             THEN MetricScore(expected_metrics[i], 500, Some(this.error), 100)
             ELSE this.value]]

\* the loop: the metric scores built so far, or the first exception raised
RECURSIVE MetricLoop(_, _, _)
MetricLoop(n, evaluation_data, ties_up) ==
    IF n = 0 THEN [raised |-> FALSE, error |-> <<>>, value |-> <<>>]
    ELSE LET before == MetricLoop(n - 1, evaluation_data, ties_up)
             this == MetricFromData(expected_metrics[n], evaluation_data,
                                    ties_up)
         IN  IF before.raised THEN before
             ELSE IF this.raised
             THEN [raised |-> TRUE, error |-> this.error, value |-> <<>>]
             ELSE [raised |-> FALSE, error |-> <<>>,
                   value |-> Append(before.value, this.value)]

(***************************************************************************)
(* evaluators.py 137-249: _handle_evaluation_prompt, from the return of    *)
(* call_with_system_prompt on.  `call` is [raised, error, content]: the    *)
(* exception _call_api raised, or the content it returned.                 *)
(***************************************************************************)
\* mutant of EvaluationFromContent: the loop runs over the keys of the
\* response, so that a "notes" key gets a MetricScore of its own
EvaluationFromContentAllKeys(content, ties_up) ==
    LET response_content == Strip(content.text)
        json_start == Find(response_content, "{")
        json_end == RFind(response_content, "}") + 1
        json_content == Slice(response_content, json_start, json_end)
        evaluation_data == JsonLoads(json_content, content.members)
        loop == MetricLoop(Len(expected_metrics), evaluation_data.object,
                           ties_up)
        notes == BareMetric("notes", evaluation_data.object["notes"], ties_up)
    IN  IF ~content.some
        THEN _get_default_metric_scores(
                 <<"Evaluation error: ">> \o AttributeErrorText)
        ELSE IF response_content = <<>>
        THEN _get_default_metric_scores(<<"Empty response from AI">>)
        ELSE IF ~(json_start # -1 /\ json_end > json_start)
        THEN _get_default_metric_scores(<<"No JSON found in response">>)
        ELSE IF ~evaluation_data.ok
        THEN _get_default_metric_scores(
                 <<"JSON parsing error: ">> \o JSONDecodeErrorText)
        ELSE IF loop.raised
        THEN _get_default_metric_scores(<<"Evaluation error: ">> \o loop.error)
        ELSE IF evaluation_data.object["notes"].kind # "absent" /\ ~notes.raised
        THEN Append(loop.value, notes.value)
        ELSE loop.value

EvaluationFromContent(content, ties_up) ==
    LET response_content == Strip(content.text)
        json_start == Find(response_content, "{")
        json_end == RFind(response_content, "}") + 1
        json_content == Slice(response_content, json_start, json_end)
        evaluation_data == JsonLoads(json_content, content.members)
        loop == MetricLoop(Len(expected_metrics), evaluation_data.object,
                           ties_up)
    IN  IF ~content.some
        THEN _get_default_metric_scores(
                 <<"Evaluation error: ">> \o AttributeErrorText)
        ELSE IF response_content = <<>>
        THEN _get_default_metric_scores(<<"Empty response from AI">>)
        ELSE IF ~(json_start # -1 /\ json_end > json_start)
        THEN _get_default_metric_scores(<<"No JSON found in response">>)
        ELSE IF ~evaluation_data.ok
        THEN _get_default_metric_scores(
                 <<"JSON parsing error: ">> \o JSONDecodeErrorText)
        ELSE IF loop.raised
        THEN _get_default_metric_scores(<<"Evaluation error: ">> \o loop.error)
        ELSE IF loop.value = <<>>
        THEN _get_default_metric_scores(
                 <<"No valid metric scores found in response">>)
        ELSE loop.value

\* mutant of _handle_evaluation_prompt: one message for every failure
HandleEvaluationOneMessage(call, ties_up) ==
    LET scores == EvaluationFromContent(call.content, ties_up)
    IN  IF call.raised \/ scores[1].confidence = 100
        THEN _get_default_metric_scores(<<"Evaluation failed">>)
        ELSE scores

_handle_evaluation_prompt(call, ties_up) ==
    IF call.raised
    THEN _get_default_metric_scores(<<"Evaluation error: ">> \o call.error)
    ELSE EvaluationFromContent(call.content, ties_up)

(***************************************************************************)
(* evaluators.py 251-282: _parse_validation_response.  The result is the   *)
(* dict it returns, as the values of "proceed" and "reason".               *)
(***************************************************************************)
ValidationResult(proceed, reason) == [proceed |-> proceed, reason |-> reason]

\* mutant of _parse_validation_response: a response that cannot be parsed
\* lets the content proceed
ParseValidationLenient(content) ==
    IF content.some
       /\ Find(Strip(content.text), "{") # -1
       /\ RFind(Strip(content.text), "}") > Find(Strip(content.text), "{")
       /\ JsonLoads(Slice(Strip(content.text), Find(Strip(content.text), "{"),
                          RFind(Strip(content.text), "}") + 1),
                    content.members).ok
    THEN ValidationResult(content.members["proceed"], content.members["reason"])
    ELSE ValidationResult(JBool(TRUE), JStr(<<"No valid JSON found">>))

\* mutant of _parse_validation_response: the decoded object is returned
\* without the check of its two keys
ParseValidationUnchecked(content) ==
    LET response_content == Strip(content.text)
        json_start == Find(response_content, "{")
        json_end == RFind(response_content, "}") + 1
        json_content == Slice(response_content, json_start, json_end)
        validation_data == JsonLoads(json_content, content.members)
    IN  IF ~content.some
        THEN ValidationResult(JBool(FALSE),
                 JStr(<<"Parsing error: ">> \o AttributeErrorText))
        ELSE IF json_start # -1 /\ json_end > json_start
        THEN IF ~validation_data.ok
             THEN ValidationResult(JBool(FALSE),
                      JStr(<<"JSON parsing error: ">> \o JSONDecodeErrorText))
             ELSE ValidationResult(validation_data.object["proceed"],
                      IF validation_data.object["reason"].kind = "absent"
                      THEN JStr(<<"No reason provided">>)
                      ELSE validation_data.object["reason"])
        ELSE ValidationResult(JBool(FALSE),
                 JStr(<<"No valid JSON found in validation response">>))

_parse_validation_response(content) ==
    LET response_content == Strip(content.text)
        json_start == Find(response_content, "{")
        json_end == RFind(response_content, "}") + 1
        json_content == Slice(response_content, json_start, json_end)
        validation_data == JsonLoads(json_content, content.members)
    IN  IF ~content.some
        THEN ValidationResult(JBool(FALSE),
                 JStr(<<"Parsing error: ">> \o AttributeErrorText))
        ELSE IF json_start # -1 /\ json_end > json_start
        THEN IF ~validation_data.ok
             THEN ValidationResult(JBool(FALSE),
                      JStr(<<"JSON parsing error: ">> \o JSONDecodeErrorText))
             ELSE IF validation_data.object["proceed"].kind # "absent"
                     /\ validation_data.object["reason"].kind # "absent"
             THEN ValidationResult(validation_data.object["proceed"],
                                   validation_data.object["reason"])
             ELSE ValidationResult(JBool(FALSE),
                      JStr(<<"Invalid response format from validation agent">>))
        ELSE ValidationResult(JBool(FALSE),
                 JStr(<<"No valid JSON found in validation response">>))

(***************************************************************************)
(* evaluators.py 284-321: _convert_validation_to_metrics.                  *)
(* score_variation[i] is the value random.uniform(-0.05, 0.05) returns in  *)
(* iteration i.  The result is [raised, error, value].                     *)
(***************************************************************************)
validation_expected_metrics ==
    <<"relevance", "accuracy", "completeness", "clarity", "structure",
      "consistency", "hallucination_detection", "context_adherence",
      "factual_grounding">>

\* reasoning=reason handed to the Optional[str] field: [valid, value]
ReasonField(reason) ==
    CASE reason.kind = "str" -> [valid |-> TRUE, value |-> Some(reason.str)]
      [] reason.kind = "null" -> [valid |-> TRUE, value |-> None]
      [] OTHER -> [valid |-> FALSE, value |-> None]

\* mutant of FinalScore: a jitter five times as wide
FinalScoreWideJitter(base_score, variation, ties_up) ==
    Round2(Clamp(base_score + 5 * variation), 1000, ties_up)

FinalScore(base_score, variation, ties_up) ==
    Round2(Clamp(base_score + variation), 1000, ties_up)

_convert_validation_to_metrics(validation_result, score_variation, ties_up) ==
    LET proceed == Truthy(validation_result.proceed)
        reason == ReasonField(validation_result.reason)
        base_score == IF proceed THEN 850 ELSE 350
        confidence == IF proceed THEN 900 ELSE 800
        final_score(i) == FinalScore(base_score, score_variation[i], ties_up)
        indices == 1..Len(validation_expected_metrics)
    IN  IF \E i \in indices : final_score(i) < 650 /\ ~reason.valid
        THEN [raised |-> TRUE, error |-> ValidationErrorText, value |-> <<>>]
        ELSE [raised |-> FALSE, error |-> <<>>,
              value |-> [i \in indices |->
                  MetricScore(validation_expected_metrics[i], final_score(i),
                      IF final_score(i) < 650 THEN reason.value ELSE None,
                      confidence)]]

(***************************************************************************)
(* evaluators.py 99-135: _handle_validation_prompt, from the return of     *)
(* call_with_system_prompt on.                                             *)
(***************************************************************************)
_handle_validation_prompt(call, score_variation, ties_up) ==
    LET validation_result == _parse_validation_response(call.content)
        converted ==
            _convert_validation_to_metrics(validation_result, score_variation,
                                           ties_up)
    IN  IF call.raised
        THEN _get_default_metric_scores(<<"Validation error: ">> \o call.error)
        ELSE IF converted.raised
        THEN _get_default_metric_scores(
                 <<"Validation error: ">> \o converted.error)
        ELSE converted.value

(***************************************************************************)
(* evaluators.py 86-97: evaluate_all_metrics.  The protocol is chosen by   *)
(* "validation agent" in system_prompt.lower(); a system prompt is a       *)
(* sequence of characters.                                                 *)
(***************************************************************************)
LowerChar(c) ==
    CASE c = "V" -> "v" [] c = "A" -> "a" [] c = "G" -> "g" [] c = "T" -> "t"
      [] c = "N" -> "n" [] c = "E" -> "e" [] c = "Y" -> "y" [] OTHER -> c

Lower(t) == [i \in 1..Len(t) |-> LowerChar(t[i])]

\* needle in t
Contains(t, needle) ==
    \E i \in 0..(Len(t) - Len(needle)) :
        SubSeq(t, i + 1, i + Len(needle)) = needle

ValidationAgent ==
    <<"v", "a", "l", "i", "d", "a", "t", "i", "o", "n", " ",
      "a", "g", "e", "n", "t">>

\* mutant of IsValidationPrompt: a case-sensitive test
IsValidationPromptCaseSensitive(system_prompt) ==
    Contains(system_prompt, ValidationAgent)

IsValidationPrompt(system_prompt) == Contains(Lower(system_prompt), ValidationAgent)

evaluate_all_metrics(evaluation_input, call, score_variation, ties_up) ==
    IF IsValidationPrompt(evaluation_input.system_prompt)
    THEN _handle_validation_prompt(call, score_variation, ties_up)
    ELSE _handle_evaluation_prompt(call, ties_up)

(***************************************************************************)
(* evaluators.py 342-346: the overall score.  score * weight is in units   *)
(* of 10^-6.                                                               *)
(***************************************************************************)
\* METRIC_WEIGHTS.get(score.metric, 1.0/len(metric_scores)), in units of
\* 1/(1000 * len(metric_scores)) so that the default stays exact
WeightTimesLen(metric, len) ==
    IF metric \in DOMAIN METRIC_WEIGHTS
    THEN METRIC_WEIGHTS[metric] * len
    ELSE 1000

RECURSIVE SumSeq(_)
SumSeq(xs) == IF xs = <<>> THEN 0 ELSE Head(xs) + SumSeq(Tail(xs))

\* mutant of OverallScore: the unweighted mean
MeanScore(metric_scores, ties_up) ==
    LET len == Len(metric_scores)
        terms == [i \in 1..len |-> metric_scores[i].score]
    IN  Round2(SumSeq(terms), 1000 * len, ties_up)

OverallScore(metric_scores, ties_up) ==
    LET len == Len(metric_scores)
        terms == [i \in 1..len |->
                     metric_scores[i].score
                         * WeightTimesLen(metric_scores[i].metric, len)]
    IN  Round2(SumSeq(terms), 1000000 * len, ties_up)

(***************************************************************************)
(* evaluators.py 366-413: the texts of summary and recommendations.        *)
(***************************************************************************)
StaticSummary ==
    <<"Evaluation completed with mixed results. Review individual metric scores for details.">>

QualityIsGood ==
    <<"Content quality is good. Consider minor refinements based on specific project requirements.">>

StaticRecommendations ==
    <<"Review content for accuracy and completeness. Improve clarity and structure. Ensure alignment with requirements.">>

\* str.split('\n')
RECURSIVE SplitLines(_)
SplitLines(t) ==
    LET nl == Find(t, "\n")
    IN  IF nl = -1 THEN <<t>>
        ELSE <<Slice(t, 0, nl)>> \o SplitLines(Slice(t, nl + 1, Len(t)))

\* "\n".join(lines)
RECURSIVE JoinLines(_)
JoinLines(lines) ==
    IF lines = <<>> THEN <<>>
    ELSE IF Len(lines) = 1 THEN lines[1]
    ELSE lines[1] \o <<"\n">> \o JoinLines(Tail(lines))

\* mutant of KeepLine: headings are kept
KeepNonBlankLine(rec) == Strip(rec) # <<>>

\* rec.strip() and not rec.strip().startswith('#')
KeepLine(rec) == Strip(rec) # <<>> /\ Head(Strip(rec)) # "#"

\* evaluators.py 408-409
FilterRecommendations(response_content) ==
    LET kept == SelectSeq(SplitLines(response_content), KeepLine)
        recommendations == [i \in 1..Len(kept) |-> Strip(kept[i])]
    IN  JoinLines(SubSeq(recommendations, 1, Min(5, Len(recommendations))))

\* mutant of LowScores: the 0.65 cutoff of the reasoning rule
LowScoresBelow065(metric_scores) ==
    SelectSeq(metric_scores, LAMBDA ms : ms.score < 650)

\* mutant of LowScores: a cutoff of 0.9
LowScoresBelow09(metric_scores) ==
    SelectSeq(metric_scores, LAMBDA ms : ms.score < 900)

\* evaluators.py 390: the metric scores below 0.7
LowScores(metric_scores) == SelectSeq(metric_scores, LAMBDA ms : ms.score < 700)

(***************************************************************************)
(* clients.py 95-125: the message lists of the three logical calls.  The   *)
(* user message is kept as the list of metric lines it enumerates.         *)
(***************************************************************************)
SummarySystemPrompt ==
    <<"You are an expert at summarizing evaluation results.">>

RecommendationsSystemPrompt ==
    <<"You are an expert at providing actionable improvement recommendations.">>

PromptLine(ms) ==
    [metric |-> ms.metric, score |-> ms.score,
     reasoning |-> IF ms.reasoning.some /\ ms.reasoning.text # <<>>
                   THEN ms.reasoning.text ELSE <<>>]

PromptLines(scores) == [i \in 1..Len(scores) |-> PromptLine(scores[i])]

Call(context, system, lines) ==
    [context |-> context, system |-> system, lines |-> lines]

call_with_system_prompt(evaluation_input) ==
    Call("custom_evaluation", evaluation_input.system_prompt, <<>>)

call_for_summary(metric_scores) ==
    Call("summary", SummarySystemPrompt, PromptLines(metric_scores))

call_for_recommendations(low_scores) ==
    Call("recommendations", RecommendationsSystemPrompt, PromptLines(low_scores))

(***************************************************************************)
(* clients.py 43-93: _call_api.  What one transport attempt can end in for *)
(* the caller of _call_api: the content of a successful attempt, or, when  *)
(* the attempt fails with retry_count = MAX_RETRIES, the exception.        *)
(***************************************************************************)
GatewayFailure(e) ==
    <<"Portkey API failed after ", Str(MAX_RETRIES), " retries: ">> \o e

Returned(content) == [raised |-> FALSE, error |-> <<>>, content |-> content]

Failed(error) == [raised |-> TRUE, error |-> error, content |-> NullContent]

(***************************************************************************)
(* The inputs: requests, transport errors, gateway contents and the values *)
(* of random.uniform.                                                      *)
(***************************************************************************)
MaxRecLines == 7

ValidationPrompt ==
    <<"Y", "o", "u", " ", "a", "r", "e", " ", "a", " ", "V", "a", "l", "i",
      "d", "a", "t", "i", "o", "n", " ", "A", "g", "e", "n", "t", ".">>

LowerValidationPrompt == <<"a", " ">> \o ValidationAgent \o <<"!">>

EvaluationPrompt == <<"E", "v", "a", "l", "u", "a", "t", "e", ".">>

\* "validation" and "agent" two blanks apart: Protocol B
NearValidationPrompt ==
    <<"v", "a", "l", "i", "d", "a", "t", "i", "o", "n", " ", " ",
      "a", "g", "e", "n", "t">>

EvaluationInput(session_id, backlog_type, system_prompt, formatted_output, context) ==
    [session_id |-> session_id, backlog_type |-> backlog_type,
     system_prompt |-> system_prompt,
     formatted_output |-> formatted_output, context |-> context]

EvaluationInputs ==
    {EvaluationInput("s-1", "user_story", ValidationPrompt,
                     <<"A", "s", " ", "a">>, <<"ctx1", "ctx2">>),
     EvaluationInput("s-2", "epic", LowerValidationPrompt, <<>>, <<>>),
     EvaluationInput("s-3", "user_story", EvaluationPrompt,
                     <<"A", "s">>, <<"ctx1">>),
     EvaluationInput("s-4", "epic", NearValidationPrompt, <<>>, <<>>)}

TransportErrors == {<<"Connection error.">>, <<"Request timed out.">>}

\* decoded values of one metric key
ForegroundValues ==
    {JAbsent, JNull, JNaN, JBool(TRUE), JStr(<<"high">>),
     JNum(-200), JNum(333), JNum(645), JNum(649), JNum(680), JNum(1500),
     JObj(JNum(300), JStr(<<"weak">>), JNum(1234)),
     JObj(JNum(300), JNull, JNum(456)),
     JObj(JNum(300), JAbsent, JAbsent),
     JObj(JNum(300), JStr(<<>>), JNum(-5)),
     JObj(JNum(300), JNum(7), JNum(500)),
     JObj(JNum(300), JStr(<<"weak">>), JStr(<<"sure">>)),
     JObj(JNum(907), JStr(<<"good">>), JNum(950)),
     JObj(JNum(1500), JStr(<<"good">>), JNaN),
     JObj(JStr(<<"0.9">>), JStr(<<"good">>), JStr(<<"0.25">>)),
     JObj(JStr(<<"high">>), JStr(<<"good">>), JNum(900)),
     JObj(JNull, JStr(<<"good">>), JNum(900)),
     JObj(JNaN, JStr(<<"good">>), JNum(900)),
     JObj(JAbsent, JStr(<<"good">>), JNum(900))}

BackgroundValues ==
    {JAbsent, JNum(900), JObj(JNum(400), JStr(<<"weak">>), JNum(600))}

MetricGroups == {{"relevance"}, {"clarity", "factual_grounding"}}

\* the members of a Protocol B response: fg for the metrics of group, bg
\* for the other metrics
EvaluationMembers(group, fg, bg) ==
    [k \in AllKeys |->
        IF k \in group THEN fg ELSE IF k \in MetricNames THEN bg ELSE JAbsent]

EvaluationObjects ==
    {EvaluationMembers(g, fg, bg) :
        g \in MetricGroups, fg \in ForegroundValues, bg \in BackgroundValues}

\* the members of a Protocol A response
ValidationMembers(proceed, reason) ==
    [k \in AllKeys |->
        IF k = "proceed" THEN proceed ELSE IF k = "reason" THEN reason
        ELSE JAbsent]

ValidationObjects ==
    {ValidationMembers(p, JStr(<<"Title missing">>)) :
        p \in {JAbsent, JNull, JBool(TRUE), JBool(FALSE), JNum(0), JNum(1000),
               JStr(<<"false">>), JStr(<<>>)}}
    \cup {ValidationMembers(p, rs) :
        p \in {JBool(TRUE), JBool(FALSE)},
        rs \in {JAbsent, JNull, JNum(5), JStr(<<>>)}}

\* texts around one object: the object alone, and wrapped in prose
JsonTexts ==
    {<<"{", "members", "}">>,
     <<" ", "Here", " ", "it", " ", "is:", "\n", "{", " ", "members", "}",
       "\n", "Done", "\n">>}

\* texts that hold no object, or hold one that does not decode
BrokenTexts ==
    {<<>>, <<" ", "\n">>, <<"Sorry,", " ", "no">>, <<"}", " ", "{">>,
     <<"{", "members">>, <<"members", "}">>, <<"{", "oops", "}">>,
     <<"{", "members", "}", "}">>, <<"{", "{", "members", "}">>}

\* a Protocol B object with keys that are no metric names
WithExtraKeys(object, proceed, reason, notes) ==
    [k \in AllKeys |->
        IF k = "proceed" THEN proceed
        ELSE IF k = "reason" THEN reason
        ELSE IF k = "notes" THEN notes
        ELSE object[k]]

ExtraKeyObjects ==
    {WithExtraKeys(o, p, JStr(<<"Title missing">>), n) :
        o \in {EmptyObject,
               EvaluationMembers({"relevance"}, JNum(680), JNum(900)),
               EvaluationMembers({"relevance"},
                   JObj(JNum(300), JStr(<<"weak">>), JNum(1234)), JAbsent)},
        p \in {JAbsent, JBool(FALSE)},
        n \in {JNum(0), JObj(JNum(100), JStr(<<"n/a">>), JStr(<<"sure">>))}}

SampleEvaluationObject ==
    EvaluationMembers({"relevance"}, JNum(680), JNum(900))

SampleValidationObject ==
    ValidationMembers(JBool(TRUE), JStr(<<"Title missing">>))

MetricContents(evaluation_input) ==
    LET objects == IF IsValidationPrompt(evaluation_input.system_prompt)
                   THEN ValidationObjects ELSE EvaluationObjects
        sample == IF IsValidationPrompt(evaluation_input.system_prompt)
                  THEN SampleValidationObject ELSE SampleEvaluationObject
        extra == IF IsValidationPrompt(evaluation_input.system_prompt)
                 THEN {} ELSE ExtraKeyObjects
    IN  {NullContent, Content(<<"{", "}">>, EmptyObject)}
        \cup {Content(<<"{", "members", "}">>, o) : o \in objects \cup extra}
        \cup {Content(t, sample) : t \in JsonTexts \cup BrokenTexts}

\* the values random.uniform(-0.05, 0.05) returns in the nine iterations
ScoreVariations ==
    LET indices == 1..Len(validation_expected_metrics)
    IN  {[i \in indices |-> v] : v \in {-50, 0, 50}}
        \cup {[i \in indices |-> IF i = 1 THEN -50 ELSE 50],
              [i \in indices |-> IF i % 2 = 0 THEN -14 ELSE 26]}

NoVariation == [i \in 1..Len(validation_expected_metrics) |-> 0]

SummaryContents ==
    {NullContent,
     Content(<<"Solid", " ", "story", " ", "overall.">>, EmptyObject)}

\* the lines of recommendation responses
NumberedLine(i) ==
    IF i % 2 = 1 THEN <<" ", Str(i), ".", " ", "Fix", " ">>
    ELSE <<"-", " ", "Step", " ", Str(i)>>

ShortLines ==
    {<<>>, <<" ", "\t">>, <<"#", " ", "Plan">>, <<" ", "#", "#">>,
     NumberedLine(1), NumberedLine(2), <<"Use", " ", "#", "tags">>}

\* n numbered lines, with a heading before line h and a blank line before
\* line h + 2
LongLines(n, h) ==
    LET line(i) == IF i < h THEN NumberedLine(i)
                   ELSE IF i = h THEN <<" ", "#", " ", "Next">>
                   ELSE IF i = h + 2 THEN <<" ">>
                   ELSE NumberedLine(i - 1)
    IN  [i \in 1..n |-> line(i)]

RecommendationTexts ==
    {JoinLines(l) : l \in UNION {[1..n -> ShortLines] : n \in 0..1}}
    \cup {JoinLines(<<a, <<"#", " ", "Plan">>, <<" ", "\t">>, b>>) :
             a, b \in {<<>>, NumberedLine(2)}}
    \cup {JoinLines(LongLines(n, h)) : n \in 6..MaxRecLines, h \in 1..MaxRecLines}
    \cup {JoinLines([i \in 1..n |-> NumberedLine(i)]) : n \in 5..MaxRecLines}

RecommendationContents ==
    {NullContent} \cup {Content(t, EmptyObject) : t \in RecommendationTexts}

(***************************************************************************)
(* The state: one evaluate_all coroutine per request.                      *)
(*   pc               "off" (no such request), "idle" (received, not yet   *)
(*                    started), "attempt" (a transport attempt of the      *)
(*                    current call is in progress), "sleep" (in the        *)
(*                    backoff sleep of _call_api), "done" (evaluate_all    *)
(*                    returned `result`), "raised" (evaluate_all raised)   *)
(*   calls            the logical gateway calls issued so far; the last    *)
(*                    one is the current one                               *)
(*   outcomes         for each finished call, "returned" or "failed"       *)
(*   responses        the content each finished call returned              *)
(*   retry_count      the retry_count of the current _call_api frame       *)
(*   sleep_delay      the argument of the asyncio.sleep in progress        *)
(*   metric_scores, overall_score, summary, recommendations                *)
(*                    the locals of evaluate_all                           *)
(*   result           the EvaluationResult returned                        *)
(* The event loop and what the coroutines share:                           *)
(*   running          the task the event loop is executing; a task keeps   *)
(*                    the loop until it awaits asyncio.sleep or ends (the  *)
(*                    Portkey client is synchronous: clients.py 68)        *)
(*   random_state     the state of the generator of the random module, as  *)
(*                    the number of values drawn from it so far            *)
(* The probe task the constructor of the evaluator schedules:              *)
(*   probe_pc         "off" (no probe), "scheduled", "attempt", "sleep",   *)
(*                    "done" (test_connection returned), "error" (it       *)
(*                    raised)                                              *)
(*   probe_retry      the retry_count of the probe's _call_api frame       *)
(*   probe_outcome    "none", or how the probe's _call_api ended:          *)
(*                    "returned" or "failed"                               *)
(*   connection_ok    what test_connection returned                        *)
(* The discovery endpoints:                                                *)
(*   metrics_info     the "metrics" list of the last metrics-info response *)
(***************************************************************************)
VARIABLES evaluation_input, pc, calls, outcomes, responses, retry_count,
          sleep_delay, metric_scores, overall_score, summary,
          recommendations, result, running, random_state, probe_pc,
          probe_retry, probe_outcome, connection_ok, metrics_info

vars == <<evaluation_input, pc, calls, outcomes, responses, retry_count,
          sleep_delay, metric_scores, overall_score, summary,
          recommendations, result, running, random_state, probe_pc,
          probe_retry, probe_outcome, connection_ok, metrics_info>>

service_vars ==
    <<probe_pc, probe_retry, probe_outcome, connection_ok, metrics_info>>

\* the tasks of the event loop
NoTask == [kind |-> "none", r |-> 0]

RequestTask(r) == [kind |-> "request", r |-> r]

ProbeTask(r) == [kind |-> "probe", r |-> r]

\* the loop is free for task t to go on, or t holds it already
CanRun(t) == running = NoTask \/ running = t

NoResult ==
    [session_id |-> "", overall_score |-> 0, metric_scores |-> <<>>,
     summary |-> <<>>, recommendations |-> <<>>,
     evaluation_metadata |->
         [backlog_type |-> "", content_length |-> 0, context_items |-> 0]]

\* mutant of EvaluationResult: content_length counts the context items
EvaluationResultContextLength(input, overall, scores, summary_text, recommendations_text) ==
    [session_id |-> input.session_id, overall_score |-> overall,
     metric_scores |-> scores, summary |-> summary_text,
     recommendations |-> recommendations_text,
     evaluation_metadata |->
         [backlog_type |-> input.backlog_type,
          content_length |-> Len(input.context),
          context_items |-> Len(input.context)]]

\* evaluators.py 352-364
EvaluationResult(input, overall, scores, summary_text, recommendations_text) ==
    [session_id |-> input.session_id, overall_score |-> overall,
     metric_scores |-> scores, summary |-> summary_text,
     recommendations |-> recommendations_text,
     evaluation_metadata |->
         [backlog_type |-> input.backlog_type,
          content_length |-> Len(input.formatted_output),
          context_items |-> Len(input.context)]]

\* models.py 66-74: summary: str and overall_score ge=0.0, le=1.0
EvaluationResultValid(overall, summary_value) ==
    summary_value.some /\ overall >= 0 /\ overall <= 1000

IdleInput == EvaluationInput("", "", <<>>, <<>>, <<>>)

\* requests 1..active have been received with inputs of `inputs` and are
\* at `start`, the others do not exist
InitWith(active, inputs, start) ==
    /\ evaluation_input \in
           {f \in [ReqIds -> inputs \cup {IdleInput}] :
               \A r \in ReqIds : (f[r] = IdleInput) <=> (r > active)}
    /\ pc = [r \in ReqIds |-> IF r <= active THEN start ELSE "off"]
    /\ calls = [r \in ReqIds |-> <<>>]
    /\ outcomes = [r \in ReqIds |-> <<>>]
    /\ responses = [r \in ReqIds |-> <<>>]
    /\ retry_count = [r \in ReqIds |-> 0]
    /\ sleep_delay = [r \in ReqIds |-> 0]
    /\ metric_scores = [r \in ReqIds |-> <<>>]
    /\ overall_score = [r \in ReqIds |-> 0]
    /\ summary = [r \in ReqIds |-> None]
    /\ recommendations = [r \in ReqIds |-> <<>>]
    /\ result = [r \in ReqIds |-> NoResult]
    /\ running = NoTask
    /\ random_state = 0
    /\ probe_pc = [r \in ReqIds |-> "off"]
    /\ probe_retry = [r \in ReqIds |-> 0]
    /\ probe_outcome = [r \in ReqIds |-> "none"]
    /\ connection_ok = [r \in ReqIds |-> FALSE]
    /\ metrics_info = <<>>

Init == InitWith(1, EvaluationInputs, "idle")

CurrentContext(r) ==
    IF calls[r] = <<>> THEN "none" ELSE calls[r][Len(calls[r])].context

\* what the attempt in progress can end in for the caller of _call_api
CallResults(r, contents) ==
    {Returned(c) : c \in contents}
    \cup {Failed(GatewayFailure(e)) :
             e \in IF retry_count[r] < MAX_RETRIES THEN {} ELSE TransportErrors}

Outcome(call) == IF call.raised THEN "failed" ELSE "returned"

\* mutant of Power2: a backoff that grows linearly
Power2Linear(n) == n + 1

RECURSIVE Power2(_)
Power2(n) == IF n = 0 THEN 1 ELSE 2 * Power2(n - 1)

(***************************************************************************)
(* evaluators.py 336-340, 86-93, 99-124 / 137-159: evaluate_all up to the  *)
(* first transport attempt of the metric-evaluation call.                  *)
(***************************************************************************)
\* mutant of EvaluateAll: the summary call is issued together with the
\* metric-evaluation call, before any score exists
EvaluateAllGather(r) ==
    /\ pc[r] = "idle"
    /\ CanRun(RequestTask(r))
    /\ running' = RequestTask(r)
    /\ calls' = [calls EXCEPT ![r] =
                    <<call_with_system_prompt(evaluation_input[r]),
                      call_for_summary(metric_scores[r])>>]
    /\ retry_count' = [retry_count EXCEPT ![r] = 0]
    /\ pc' = [pc EXCEPT ![r] = "attempt"]
    /\ UNCHANGED <<evaluation_input, outcomes, responses, sleep_delay,
                   metric_scores, overall_score, summary, recommendations,
                   result, random_state, service_vars>>

EvaluateAll(r) ==
    /\ pc[r] = "idle"
    /\ CanRun(RequestTask(r))
    /\ running' = RequestTask(r)
    /\ calls' = [calls EXCEPT ![r] =
                    Append(@, call_with_system_prompt(evaluation_input[r]))]
    /\ retry_count' = [retry_count EXCEPT ![r] = 0]
    /\ pc' = [pc EXCEPT ![r] = "attempt"]
    /\ UNCHANGED <<evaluation_input, outcomes, responses, sleep_delay,
                   metric_scores, overall_score, summary, recommendations,
                   result, random_state, service_vars>>

(***************************************************************************)
(* clients.py 79-84: a transport attempt fails with retries left; the      *)
(* coroutine goes to sleep for RETRY_DELAY * 2 ** retry_count.             *)
(***************************************************************************)
\* mutant of TransportFailure: a blocking sleep, which keeps the event loop
TransportFailureBlocking(r) ==
    /\ pc[r] = "attempt"
    /\ running = RequestTask(r)
    /\ retry_count[r] < MAX_RETRIES
    /\ sleep_delay' = [sleep_delay EXCEPT ![r] =
                          RETRY_DELAY * Power2(retry_count[r])]
    /\ pc' = [pc EXCEPT ![r] = "sleep"]
    /\ UNCHANGED <<evaluation_input, calls, outcomes, responses, retry_count,
                   metric_scores, overall_score, summary, recommendations,
                   result, running, random_state, service_vars>>

TransportFailure(r) ==
    /\ pc[r] = "attempt"
    /\ running = RequestTask(r)
    /\ retry_count[r] < MAX_RETRIES
    /\ running' = NoTask
    /\ sleep_delay' = [sleep_delay EXCEPT ![r] =
                          RETRY_DELAY * Power2(retry_count[r])]
    /\ pc' = [pc EXCEPT ![r] = "sleep"]
    /\ UNCHANGED <<evaluation_input, calls, outcomes, responses, retry_count,
                   metric_scores, overall_score, summary, recommendations,
                   result, random_state, service_vars>>

(***************************************************************************)
(* clients.py 85-91: the sleep is over; _call_api calls itself with        *)
(* retry_count + 1.                                                        *)
(***************************************************************************)
BackoffWake(r) ==
    /\ pc[r] = "sleep"
    /\ running = NoTask
    /\ running' = RequestTask(r)
    /\ retry_count' = [retry_count EXCEPT ![r] = @ + 1]
    /\ sleep_delay' = [sleep_delay EXCEPT ![r] = 0]
    /\ pc' = [pc EXCEPT ![r] = "attempt"]
    /\ UNCHANGED <<evaluation_input, calls, outcomes, responses,
                   metric_scores, overall_score, summary, recommendations,
                   result, random_state, service_vars>>

(***************************************************************************)
(* evaluators.py 366-385: what _generate_summary returns for the outcome   *)
(* of call_for_summary: the content as it is (None included), or the       *)
(* static sentence when the call raised.                                   *)
(***************************************************************************)
\* mutant of _generate_summary: the static sentence whatever the call did
SummaryAlwaysStatic(call) == Some(StaticSummary)

_generate_summary(call) ==
    IF call.raised THEN Some(StaticSummary)
    ELSE IF call.content.some THEN Some(call.content.text)
    ELSE None

(***************************************************************************)
(* evaluators.py 405-413: what _generate_recommendations returns for the   *)
(* outcome of call_for_recommendations; None has no split().               *)
(***************************************************************************)
\* mutant of _generate_recommendations: a failed call leaves the text empty
RecommendationsFailureEmpty(call) ==
    IF call.raised \/ ~call.content.some THEN <<>>
    ELSE FilterRecommendations(call.content.text)

_generate_recommendations(call) ==
    IF call.raised \/ ~call.content.some THEN StaticRecommendations
    ELSE FilterRecommendations(call.content.text)

\* mutant of Finish: the metric scores are kept in a field shared by the
\* requests, which holds those of the first request
FinishShared(r, summary_value, recommendations_text) ==
    IF EvaluationResultValid(overall_score[r], summary_value)
    THEN /\ result' = [result EXCEPT ![r] =
                EvaluationResult(evaluation_input[r], overall_score[r],
                    metric_scores[1], summary_value.text, recommendations_text)]
         /\ pc' = [pc EXCEPT ![r] = "done"]
         /\ running' = NoTask
    ELSE /\ result' = result
         /\ pc' = [pc EXCEPT ![r] = "raised"]
         /\ running' = NoTask

\* evaluators.py 352-364: evaluate_all returns the result, or the
\* constructor of EvaluationResult raises
Finish(r, summary_value, recommendations_text) ==
    IF EvaluationResultValid(overall_score[r], summary_value)
    THEN /\ result' = [result EXCEPT ![r] =
                EvaluationResult(evaluation_input[r], overall_score[r],
                    metric_scores[r], summary_value.text, recommendations_text)]
         /\ pc' = [pc EXCEPT ![r] = "done"]
         /\ running' = NoTask
    ELSE /\ result' = result
         /\ pc' = [pc EXCEPT ![r] = "raised"]
         /\ running' = NoTask

(***************************************************************************)
(* evaluators.py 298-302: how many values _handle_validation_prompt draws  *)
(* from the generator of the random module: one per iteration of the loop  *)
(* of _convert_validation_to_metrics, up to the iteration in which the     *)
(* constructor of MetricScore raises; none under Protocol B or when the    *)
(* gateway call raised.                                                    *)
(***************************************************************************)
RandomDraws(input, call, score_variation, ties_up) ==
    LET validation_result == _parse_validation_response(call.content)
        base_score == IF Truthy(validation_result.proceed) THEN 850 ELSE 350
        indices == 1..Len(validation_expected_metrics)
        raising == {i \in indices :
                       /\ FinalScore(base_score, score_variation[i], ties_up)
                              < 650
                       /\ ~ReasonField(validation_result.reason).valid}
    IN  IF ~IsValidationPrompt(input.system_prompt) \/ call.raised THEN 0
        ELSE IF raising = {} THEN Len(validation_expected_metrics)
        ELSE CHOOSE i \in raising : \A j \in raising : i <= j

(***************************************************************************)
(* The metric-evaluation call ends (clients.py 67-77 or 92-93); the        *)
(* protocol handler turns its outcome into the metric scores, evaluate_all *)
(* computes the overall score (342-346) and _generate_summary issues the   *)
(* summary call (366-381).  `contents` are the contents the gateway may    *)
(* answer with, `variations` the values random.uniform may return.         *)
(***************************************************************************)
MetricsReturnFrom(r, contents, variations) ==
    /\ pc[r] = "attempt"
    /\ running = RequestTask(r)
    /\ CurrentContext(r) = "custom_evaluation"
    /\ \E call \in CallResults(r, contents),
          score_variation \in
              IF IsValidationPrompt(evaluation_input[r].system_prompt)
              THEN variations ELSE {NoVariation},
          score_ties_up \in BOOLEAN, overall_ties_up \in BOOLEAN :
          LET scores == evaluate_all_metrics(evaluation_input[r], call,
                                             score_variation, score_ties_up)
          IN  /\ metric_scores' = [metric_scores EXCEPT ![r] = scores]
              /\ overall_score' = [overall_score EXCEPT ![r] =
                                      OverallScore(scores, overall_ties_up)]
              /\ calls' = [calls EXCEPT ![r] =
                              Append(@, call_for_summary(scores))]
              /\ outcomes' = [outcomes EXCEPT ![r] = Append(@, Outcome(call))]
              /\ responses' = [responses EXCEPT ![r] = Append(@, call.content)]
              /\ random_state' = random_state
                     + RandomDraws(evaluation_input[r], call, score_variation,
                                   score_ties_up)
    /\ retry_count' = [retry_count EXCEPT ![r] = 0]
    /\ UNCHANGED <<evaluation_input, pc, sleep_delay, summary,
                   recommendations, result, running, service_vars>>

MetricsReturn(r) ==
    MetricsReturnFrom(r, MetricContents(evaluation_input[r]), ScoreVariations)

(***************************************************************************)
(* The summary call ends; _generate_recommendations (387-405) returns the  *)
(* fixed sentence when no score is below 0.7 and evaluate_all builds the   *)
(* result, or issues the recommendations call.                             *)
(***************************************************************************)
SummaryReturnFrom(r, contents) ==
    /\ pc[r] = "attempt"
    /\ running = RequestTask(r)
    /\ CurrentContext(r) = "summary"
    /\ \E call \in CallResults(r, contents) :
          LET summary_value == _generate_summary(call)
              low_scores == LowScores(metric_scores[r])
          IN  /\ summary' = [summary EXCEPT ![r] = summary_value]
              /\ outcomes' = [outcomes EXCEPT ![r] = Append(@, Outcome(call))]
              /\ responses' = [responses EXCEPT ![r] = Append(@, call.content)]
              /\ IF low_scores = <<>>
                 THEN /\ recommendations' =
                             [recommendations EXCEPT ![r] = QualityIsGood]
                      /\ Finish(r, summary_value, QualityIsGood)
                      /\ calls' = calls
                 ELSE /\ calls' = [calls EXCEPT ![r] =
                             Append(@, call_for_recommendations(low_scores))]
                      /\ UNCHANGED <<recommendations, result, pc, running>>
    /\ retry_count' = [retry_count EXCEPT ![r] = 0]
    /\ UNCHANGED <<evaluation_input, sleep_delay, metric_scores,
                   overall_score, random_state, service_vars>>

SummaryReturn(r) == SummaryReturnFrom(r, SummaryContents)

(***************************************************************************)
(* The recommendations call ends (405-413) and evaluate_all builds the     *)
(* result (352-364).                                                       *)
(***************************************************************************)
RecommendationsReturnFrom(r, contents) ==
    /\ pc[r] = "attempt"
    /\ running = RequestTask(r)
    /\ CurrentContext(r) = "recommendations"
    /\ \E call \in CallResults(r, contents) :
          LET recommendations_text == _generate_recommendations(call)
          IN  /\ recommendations' =
                     [recommendations EXCEPT ![r] = recommendations_text]
              /\ outcomes' = [outcomes EXCEPT ![r] = Append(@, Outcome(call))]
              /\ responses' = [responses EXCEPT ![r] = Append(@, call.content)]
              /\ Finish(r, summary[r], recommendations_text)
    /\ retry_count' = [retry_count EXCEPT ![r] = 0]
    /\ UNCHANGED <<evaluation_input, calls, sleep_delay, metric_scores,
                   overall_score, summary, random_state, service_vars>>

RecommendationsReturn(r) ==
    RecommendationsReturnFrom(r, RecommendationContents)

Next ==
    \E r \in ReqIds :
        \/ EvaluateAll(r)
        \/ TransportFailure(r)
        \/ BackoffWake(r)
        \/ MetricsReturn(r)
        \/ SummaryReturn(r)
        \/ RecommendationsReturn(r)

Spec == Init /\ [][Next]_vars

(***************************************************************************)
(* Several requests in flight (main.py 37-57: one handler coroutine per    *)
(* request on one event loop).  The gateway answers from a short           *)
(* repertoire, so that the interleavings of the requests stay enumerable.  *)
(***************************************************************************)
BriefInputs == {i \in EvaluationInputs : i.session_id \in {"s-1", "s-3"}}

BriefMetricContents(input) ==
    IF IsValidationPrompt(input.system_prompt)
    THEN {Content(<<"{", "members", "}">>,
                  ValidationMembers(p, JStr(<<"Title missing">>))) :
              p \in {JBool(TRUE), JBool(FALSE)}}
    ELSE {Content(<<"{", "members", "}">>,
                  EvaluationMembers({"relevance"}, fg, JNum(900))) :
              fg \in {JNum(680), JNum(900)}}

BriefVariations ==
    {NoVariation,
     [i \in 1..Len(validation_expected_metrics) |->
         IF i % 2 = 0 THEN -14 ELSE 26]}

BriefSummaryContents ==
    {Content(<<"Solid", " ", "story", " ", "overall.">>, EmptyObject)}

BriefRecommendationContents ==
    {Content(JoinLines(<<NumberedLine(1), NumberedLine(2)>>), EmptyObject)}

InitConcurrent == InitWith(NumRequests, BriefInputs, "idle")

\* the steps of request r
RequestStep(r) ==
    \/ EvaluateAll(r)
    \/ TransportFailure(r)
    \/ BackoffWake(r)
    \/ MetricsReturnFrom(r, BriefMetricContents(evaluation_input[r]),
                         BriefVariations)
    \/ SummaryReturnFrom(r, BriefSummaryContents)
    \/ RecommendationsReturnFrom(r, BriefRecommendationContents)

NextConcurrent == \E r \in ReqIds : RequestStep(r)

SpecConcurrent == InitConcurrent /\ [][NextConcurrent]_vars

(***************************************************************************)
(* The probe.  main.py 54 constructs one evaluator per request, and its    *)
(* constructor (evaluators.py 23-28) schedules _test_connection as a task  *)
(* of the event loop; the task first runs when the handler awaits a sleep  *)
(* or has ended.                                                           *)
(***************************************************************************)
Construct(r) ==
    /\ pc[r] = "received"
    /\ running = NoTask
    /\ pc' = [pc EXCEPT ![r] = "idle"]
    /\ probe_pc' = [probe_pc EXCEPT ![r] = "scheduled"]
    /\ running' = RequestTask(r)
    /\ UNCHANGED <<evaluation_input, calls, outcomes, responses, retry_count,
                   sleep_delay, metric_scores, overall_score, summary,
                   recommendations, result, random_state, probe_retry,
                   probe_outcome, connection_ok, metrics_info>>

request_vars ==
    <<evaluation_input, pc, calls, outcomes, responses, retry_count,
      sleep_delay, metric_scores, overall_score, summary, recommendations,
      result>>

\* evaluators.py 30-33, clients.py 31-37, 67-73: the task starts and makes
\* the first transport attempt of the probe call
ProbeStart(r) ==
    /\ probe_pc[r] = "scheduled"
    /\ running = NoTask
    /\ probe_pc' = [probe_pc EXCEPT ![r] = "attempt"]
    /\ probe_retry' = [probe_retry EXCEPT ![r] = 0]
    /\ running' = ProbeTask(r)
    /\ UNCHANGED <<request_vars, random_state, probe_outcome, connection_ok,
                   metrics_info>>

\* clients.py 79-84
ProbeTransportFailure(r) ==
    /\ probe_pc[r] = "attempt"
    /\ running = ProbeTask(r)
    /\ probe_retry[r] < MAX_RETRIES
    /\ probe_pc' = [probe_pc EXCEPT ![r] = "sleep"]
    /\ running' = NoTask
    /\ UNCHANGED <<request_vars, random_state, probe_retry, probe_outcome,
                   connection_ok, metrics_info>>

\* clients.py 85-91
ProbeBackoffWake(r) ==
    /\ probe_pc[r] = "sleep"
    /\ running = NoTask
    /\ probe_pc' = [probe_pc EXCEPT ![r] = "attempt"]
    /\ probe_retry' = [probe_retry EXCEPT ![r] = @ + 1]
    /\ running' = ProbeTask(r)
    /\ UNCHANGED <<request_vars, random_state, probe_outcome, connection_ok,
                   metrics_info>>

ProbeContents == {NullContent, Content(<<"pong">>, EmptyObject)}

\* mutant of test_connection: the failure of the probe is reported as success
TestConnectionAlwaysTrue(call) == [raised |-> FALSE, value |-> TRUE]

\* clients.py 31-41: test_connection for the outcome of its _call_api, as
\* [raised, value]: it returns True, or catches the exception and returns
\* False
test_connection(call) == [raised |-> FALSE, value |-> ~call.raised]

\* clients.py 75-77 or 92-93, then 38-41 and evaluators.py 33-39: the probe
\* call ends, test_connection returns and _test_connection logs the value,
\* or logs the exception test_connection raised ("error")
ProbeReturn(r) ==
    /\ probe_pc[r] = "attempt"
    /\ running = ProbeTask(r)
    /\ \E call \in {Returned(c) : c \in ProbeContents}
                   \cup {Failed(GatewayFailure(e)) :
                            e \in IF probe_retry[r] < MAX_RETRIES THEN {}
                                  ELSE TransportErrors} :
          LET connection == test_connection(call)
          IN  /\ probe_outcome' = [probe_outcome EXCEPT ![r] = Outcome(call)]
              /\ connection_ok' =
                     [connection_ok EXCEPT ![r] = connection.value]
              /\ probe_pc' = [probe_pc EXCEPT ![r] =
                     IF connection.raised THEN "error" ELSE "done"]
    /\ running' = NoTask
    /\ UNCHANGED <<request_vars, random_state, probe_retry, metrics_info>>

(***************************************************************************)
(* The metrics-info entry points, as the (name, weight) pairs of the       *)
(* "metrics" list they return; weights in thousandths.                     *)
(***************************************************************************)
MetricInfo(name, weight) == [name |-> name, weight |-> weight]

\* main.py 182-229: the handler of GET /metrics/info
get_metrics_info ==
    <<MetricInfo("relevance", 250), MetricInfo("accuracy", 200),
      MetricInfo("completeness", 200), MetricInfo("clarity", 150),
      MetricInfo("structure", 100), MetricInfo("consistency", 100)>>

\* service/evaluation_service.py 80-144: EvaluationService.get_metrics_info
EvaluationService_get_metrics_info ==
    <<MetricInfo("relevance", 180), MetricInfo("accuracy", 150),
      MetricInfo("completeness", 150), MetricInfo("clarity", 120),
      MetricInfo("structure", 80), MetricInfo("consistency", 80),
      MetricInfo("hallucination_detection", 120),
      MetricInfo("context_adherence", 80),
      MetricInfo("factual_grounding", 40)>>

\* a handler of the event loop that answers without awaiting
MetricsInfoRequest(response) ==
    /\ running = NoTask
    /\ metrics_info' = response
    /\ UNCHANGED <<request_vars, running, random_state, probe_pc,
                   probe_retry, probe_outcome, connection_ok>>

GetMetricsInfo == MetricsInfoRequest(get_metrics_info)

ServiceGetMetricsInfo == MetricsInfoRequest(EvaluationService_get_metrics_info)

(***************************************************************************)
(* The service: one evaluation request with the probe of its evaluator,    *)
(* and the metrics-info entry points.                                      *)
(***************************************************************************)
InitService == InitWith(1, BriefInputs, "received")

NextService ==
    \/ \E r \in ReqIds :
           \/ Construct(r)
           \/ RequestStep(r)
           \/ ProbeStart(r)
           \/ ProbeTransportFailure(r)
           \/ ProbeBackoffWake(r)
           \/ ProbeReturn(r)
    \/ GetMetricsInfo
    \/ ServiceGetMetricsInfo

SpecService == InitService /\ [][NextService]_vars

(***************************************************************************)
(* Vocabulary of the properties.                                           *)
(***************************************************************************)
HasReturned(r) == pc[r] = "done"

HasRaised(r) == pc[r] = "raised"

Finished(r) == HasReturned(r) \/ HasRaised(r)

ProtocolA(r) == IsValidationPrompt(evaluation_input[r].system_prompt)

\* the metric-evaluation call of r has ended
MetricsEvaluated(r) == Len(outcomes[r]) >= 1

CanonicalMetrics ==
    <<"relevance", "accuracy", "completeness", "clarity", "structure",
      "consistency", "hallucination_detection", "context_adherence",
      "factual_grounding">>

\* the uniform fallback metric set: nine metrics at 0.5 / 0.1
UniformFallback(scores) ==
    /\ Len(scores) = 9
    /\ \A i \in 1..9 : scores[i].score = 500 /\ scores[i].confidence = 100

\* the kinds of unusable text a successful call can return
EmptyResponse(content) == content.some /\ Strip(content.text) = <<>>

NoJsonFound(content) ==
    /\ content.some
    /\ Strip(content.text) # <<>>
    /\ \/ Find(Strip(content.text), "{") = -1
       \/ RFind(Strip(content.text), "}") < Find(Strip(content.text), "{")

MalformedJson(content) ==
    /\ content.some
    /\ Find(Strip(content.text), "{") # -1
    /\ RFind(Strip(content.text), "}") > Find(Strip(content.text), "{")
    /\ ~JsonLoads(Slice(Strip(content.text), Find(Strip(content.text), "{"),
                        RFind(Strip(content.text), "}") + 1),
                  content.members).ok

\* the lines of a text; the empty text has none
LinesOf(t) == IF t = <<>> THEN <<>> ELSE SplitLines(t)

BlankLine(l) == \A j \in 1..Len(l) : l[j] \in Whitespace

HeadingLine(l) ==
    \E j \in 1..Len(l) :
        /\ l[j] = "#"
        /\ \A k \in 1..(j - 1) : l[k] \in Whitespace

(***************************************************************************)
(* C1: evaluate_all returns an EvaluationResult and never propagates an    *)
(* exception to its caller, whatever the gateway does (failures after all  *)
(* retries, or any content: empty, prose, malformed JSON, null).           *)
(***************************************************************************)
C1_NeverRaises == \A r \in ReqIds : ~HasRaised(r)

(***************************************************************************)
(* C2: in every result returned by evaluate_all, metric_scores has exactly *)
(* 9 entries whose names are the nine canonical metrics, each once, in     *)
(* canonical order.                                                        *)
(***************************************************************************)
C2_NineCanonicalMetrics ==
    \A r \in ReqIds :
        HasReturned(r) =>
            [i \in 1..Len(result[r].metric_scores) |->
                result[r].metric_scores[i].metric] = CanonicalMetrics

\* a partial success: some metrics taken from the response, others missing
C2_Witness ==
    \E r \in ReqIds :
        /\ HasReturned(r)
        /\ result[r].metric_scores[1].confidence = 700
        /\ result[r].metric_scores[2].confidence = 300

(***************************************************************************)
(* C3: in every result, for every metric score, reasoning is present (a    *)
(* non-null text) if and only if score < 0.65.                             *)
(***************************************************************************)
C3_ReasoningIffLow ==
    \A r \in ReqIds :
        HasReturned(r) =>
            \A i \in 1..Len(result[r].metric_scores) :
                result[r].metric_scores[i].reasoning.some
                    <=> result[r].metric_scores[i].score < 650

(***************************************************************************)
(* C4 as claimed: for every metric score in every result, score and        *)
(* confidence lie in [0, 1] and both have at most 2 decimal places.        *)
(***************************************************************************)
C4_ScoreAndConfidenceRounded ==
    \A r \in ReqIds :
        HasReturned(r) =>
            \A i \in 1..Len(result[r].metric_scores) :
                LET ms == result[r].metric_scores[i]
                IN  /\ 0 <= ms.score /\ ms.score <= 1000
                    /\ 0 <= ms.confidence /\ ms.confidence <= 1000
                    /\ ms.score % 10 = 0
                    /\ ms.confidence % 10 = 0

(***************************************************************************)
(* C4 as amended: for every metric score in every result, score and        *)
(* confidence lie in [0, 1] and score has at most 2 decimal places         *)
(* (confidence is clamped, not rounded).                                   *)
(***************************************************************************)
C4_ScoreRoundedConfidenceClamped ==
    \A r \in ReqIds :
        HasReturned(r) =>
            \A i \in 1..Len(result[r].metric_scores) :
                LET ms == result[r].metric_scores[i]
                IN  /\ 0 <= ms.score /\ ms.score <= 1000
                    /\ 0 <= ms.confidence /\ ms.confidence <= 1000
                    /\ ms.score % 10 = 0

\* a response whose relevance is 0.649 and one whose confidence is 1.234
C4_Witness ==
    \E r \in ReqIds :
        /\ HasReturned(r)
        /\ responses[r][1].members["relevance"] \in
               {JNum(649), JObj(JNum(300), JStr(<<"weak">>), JNum(1234))}
        /\ result[r].metric_scores[1].score \in {650, 300}
        /\ result[r].metric_scores[1].confidence \in {700, 1000}

(***************************************************************************)
(* C5: in every result, overall_score equals the sum over the nine metric  *)
(* scores of score times the metric's fixed weight (.18 .15 .15 .12 .08    *)
(* .08 .12 .08 .04, summing to 1.00), rounded to 2 decimals; every metric  *)
(* name is a key of the weight table, so the weight 1/len(metric_scores)   *)
(* is never used; and overall_score lies in [0, 1].                        *)
(***************************************************************************)
C5_Weight(metric) ==
    CASE metric = "relevance" -> 18
      [] metric = "accuracy" -> 15
      [] metric = "completeness" -> 15
      [] metric = "clarity" -> 12
      [] metric = "structure" -> 8
      [] metric = "consistency" -> 8
      [] metric = "hallucination_detection" -> 12
      [] metric = "context_adherence" -> 8
      [] metric = "factual_grounding" -> 4

\* the weighted sum in units of 10^-5
C5_WeightedSum(scores) ==
    SumSeq([i \in 1..Len(scores) |-> scores[i].score * C5_Weight(scores[i].metric)])

C5_OverallScore ==
    /\ SumSeq([i \in 1..9 |-> C5_Weight(CanonicalMetrics[i])]) = 100
    /\ \A r \in ReqIds :
        HasReturned(r) =>
            LET scores == result[r].metric_scores
                overall == result[r].overall_score
            IN  /\ \A i \in 1..Len(scores) :
                       scores[i].metric \in DOMAIN METRIC_WEIGHTS
                /\ overall % 10 = 0
                \* the hundredth nearest to the weighted sum
                /\ 100 * overall - C5_WeightedSum(scores) <= 500
                /\ C5_WeightedSum(scores) - 100 * overall <= 500
                /\ 0 <= overall /\ overall <= 1000

\* a result whose scores differ from metric to metric
C5_Witness ==
    \E r \in ReqIds :
        /\ HasReturned(r)
        /\ result[r].metric_scores[1].score = 300
        /\ result[r].metric_scores[2].score = 900
        /\ result[r].overall_score = 790

(***************************************************************************)
(* C6: if every transport attempt of the gateway fails, evaluate_all still *)
(* returns a result, under either protocol, in which all nine metrics have *)
(* score 0.5, confidence 0.1 and a reasoning containing the gateway error  *)
(* text, and overall_score is 0.5.                                         *)
(***************************************************************************)
AllCallsFailed(r) ==
    \A k \in 1..Len(outcomes[r]) : outcomes[r][k] = "failed"

C6_GatewayDown ==
    \A r \in ReqIds :
        (Finished(r) /\ AllCallsFailed(r)) =>
            /\ HasReturned(r)
            /\ Len(result[r].metric_scores) = 9
            /\ \A i \in 1..Len(result[r].metric_scores) :
                   LET ms == result[r].metric_scores[i]
                   IN  /\ ms.score = 500
                       /\ ms.confidence = 100
                       /\ ms.reasoning.some
                       /\ \E e \in TransportErrors :
                              Contains(ms.reasoning.text, e)
            /\ result[r].overall_score = 500

\* under Protocol A
C6_Witness ==
    \E r \in ReqIds :
        /\ HasReturned(r)
        /\ ProtocolA(r)
        /\ Len(outcomes[r]) = 3
        /\ AllCallsFailed(r)

(***************************************************************************)
(* C7 as claimed: under Protocol A, when the gateway call succeeds but the *)
(* response is empty, holds no JSON object or holds malformed JSON, the    *)
(* metrics are the uniform fallback set: nine metrics at score 0.5 and     *)
(* confidence 0.1 with the failure message as reasoning.                   *)
(***************************************************************************)
UnusableValidationResponse(r) ==
    /\ ProtocolA(r)
    /\ MetricsEvaluated(r)
    /\ outcomes[r][1] = "returned"
    /\ \/ EmptyResponse(responses[r][1])
       \/ NoJsonFound(responses[r][1])
       \/ MalformedJson(responses[r][1])

C7_UnusableValidationIsFallback ==
    \A r \in ReqIds :
        UnusableValidationResponse(r) =>
            /\ UniformFallback(metric_scores[r])
            /\ \A i \in 1..Len(metric_scores[r]) :
                   metric_scores[r][i].reasoning.some

(***************************************************************************)
(* C7 as amended: under Protocol A such a response is handled as a         *)
(* validation outcome proceed = false whose reason is the failure message: *)
(* each of the nine metrics has a score within [0.30, 0.40] (0.35 plus the *)
(* jitter), confidence 0.8, and the failure message as reasoning.          *)
(***************************************************************************)
C7_UnusableValidationIsRejection ==
    \A r \in ReqIds :
        UnusableValidationResponse(r) =>
            /\ Len(metric_scores[r]) = 9
            /\ \A i \in 1..Len(metric_scores[r]) :
                   LET ms == metric_scores[r][i]
                   IN  /\ 300 <= ms.score /\ ms.score <= 400
                       /\ ms.confidence = 800
                       /\ ms.reasoning.some
                       /\ IF MalformedJson(responses[r][1])
                          THEN Contains(ms.reasoning.text,
                                        <<"JSON parsing error: ">>)
                          ELSE ms.reasoning.text =
                                 <<"No valid JSON found in validation response">>

\* prose without JSON, then the summary call issued
C7_Witness ==
    \E r \in ReqIds :
        /\ UnusableValidationResponse(r)
        /\ NoJsonFound(responses[r][1])
        /\ metric_scores[r][1].score = 300
        /\ metric_scores[r][2].score = 400

(***************************************************************************)
(* C8 as claimed: whenever the uniform fallback metric set is used, the    *)
(* summary and the recommendations of the result are the generic static    *)
(* texts, however the summary and recommendations calls behave.            *)
(***************************************************************************)
C8_FallbackHasStaticTexts ==
    \A r \in ReqIds :
        (HasReturned(r) /\ UniformFallback(result[r].metric_scores)) =>
            /\ result[r].summary = StaticSummary
            /\ result[r].recommendations = StaticRecommendations

(***************************************************************************)
(* C8 as amended: whenever the uniform fallback metric set is used, the    *)
(* summary call and the recommendations call are still issued; the summary *)
(* is the generic static sentence if the summary call fails after all      *)
(* retries and the text the gateway returned if it succeeds; the           *)
(* recommendations are the generic static text if the recommendations call *)
(* fails or returns null content, and otherwise consist of trimmed lines   *)
(* of the gateway's response.                                              *)
(***************************************************************************)
C8_FallbackStillAsksGateway ==
    \A r \in ReqIds :
        (HasReturned(r) /\ UniformFallback(result[r].metric_scores)) =>
            /\ [k \in 1..Len(calls[r]) |-> calls[r][k].context]
                   = <<"custom_evaluation", "summary", "recommendations">>
            /\ outcomes[r][2] = "failed" =>
                   result[r].summary =
                       <<"Evaluation completed with mixed results. Review individual metric scores for details.">>
            /\ outcomes[r][2] = "returned" =>
                   result[r].summary = responses[r][2].text
            /\ (outcomes[r][3] = "failed" \/ ~responses[r][3].some) =>
                   result[r].recommendations =
                       <<"Review content for accuracy and completeness. Improve clarity and structure. Ensure alignment with requirements.">>
            /\ (outcomes[r][3] = "returned" /\ responses[r][3].some) =>
                   \A j \in 1..Len(LinesOf(result[r].recommendations)) :
                       \E i \in 1..Len(SplitLines(responses[r][3].text)) :
                           LinesOf(result[r].recommendations)[j]
                               = Strip(SplitLines(responses[r][3].text)[i])

\* the fallback after a gateway failure, both later calls answered
C8_Witness ==
    \E r \in ReqIds :
        /\ HasReturned(r)
        /\ UniformFallback(result[r].metric_scores)
        /\ outcomes[r] = <<"failed", "returned", "returned">>
        /\ result[r].summary # StaticSummary
        /\ Len(LinesOf(result[r].recommendations)) = 5

(***************************************************************************)
(* C9: a recommendations gateway call is issued if and only if at least    *)
(* one of the nine metric scores is below 0.7; when all nine scores are    *)
(* >= 0.7 no such call occurs and recommendations is the fixed "Content    *)
(* quality is good..." sentence; the prompt of an issued call lists        *)
(* exactly the metrics scoring below 0.7.                                  *)
(***************************************************************************)
RecommendationsCalls(r) ==
    {k \in 1..Len(calls[r]) : calls[r][k].context = "recommendations"}

Below07(r) == {i \in 1..Len(metric_scores[r]) : metric_scores[r][i].score < 700}

C9_RecommendationsCall ==
    \A r \in ReqIds :
        /\ RecommendationsCalls(r) # {} => Below07(r) # {}
        /\ Finished(r) =>
               /\ RecommendationsCalls(r) # {} <=> Below07(r) # {}
               /\ Below07(r) = {} =>
                      recommendations[r] =
                          <<"Content quality is good. Consider minor refinements based on specific project requirements.">>
        /\ \A k \in RecommendationsCalls(r) :
               /\ {calls[r][k].lines[j].metric : j \in 1..Len(calls[r][k].lines)}
                      = {metric_scores[r][i].metric : i \in Below07(r)}
               /\ Len(calls[r][k].lines) = Cardinality(Below07(r))

\* one score in [0.65, 0.7), the others at 0.7 or more: the call is issued
C9_Witness ==
    \E r \in ReqIds :
        /\ Finished(r)
        /\ metric_scores[r][1].score = 680
        /\ Below07(r) = {1}
        /\ RecommendationsCalls(r) = {3}

(***************************************************************************)
(* C10: for every text the recommendations call can return, the            *)
(* recommendations of the result have at most 5 lines, each non-empty      *)
(* after trimming and not starting with '#'; the retained lines are the    *)
(* first five non-blank, non-heading lines of the response, in order.      *)
(***************************************************************************)
\* the indices of the lines of a response that are neither blank nor headings
KeptIndices(response_lines) ==
    {i \in 1..Len(response_lines) :
        ~BlankLine(response_lines[i]) /\ ~HeadingLine(response_lines[i])}

C10_RecommendationLines ==
    \A r \in ReqIds :
        HasReturned(r) =>
            LET lines == LinesOf(result[r].recommendations)
            IN  /\ Len(lines) <= 5
                /\ \A j \in 1..Len(lines) :
                       /\ ~BlankLine(lines[j])
                       /\ lines[j][1] # "#"
                /\ (Len(outcomes[r]) = 3 /\ outcomes[r][3] = "returned"
                        /\ responses[r][3].some) =>
                       LET response_lines == SplitLines(responses[r][3].text)
                           kept == KeptIndices(response_lines)
                       IN  /\ Len(lines) = Min(5, Cardinality(kept))
                           /\ \A j \in 1..Len(lines) :
                                  \E i \in kept :
                                      /\ Cardinality({k \in kept : k <= i}) = j
                                      /\ lines[j] = Strip(response_lines[i])

\* a response of seven lines, a heading among them, six of them retained
\* by the filter and five by the cap
C10_Witness ==
    \E r \in ReqIds :
        /\ HasReturned(r)
        /\ Len(outcomes[r]) = 3 /\ outcomes[r][3] = "returned"
        /\ responses[r][3].some
        /\ Len(SplitLines(responses[r][3].text)) = 7
        /\ Cardinality(KeptIndices(SplitLines(responses[r][3].text))) = 6
        /\ Len(LinesOf(result[r].recommendations)) = 5

(***************************************************************************)
(* Vocabulary of the concurrency properties.                               *)
(***************************************************************************)
\* the state of request r: its input and the locals of its coroutine
Local(r) ==
    <<evaluation_input[r], pc[r], calls[r], outcomes[r], responses[r],
      retry_count[r], sleep_delay[r], metric_scores[r], overall_score[r],
      summary[r], recommendations[r], result[r]>>

\* every step leaves the state of all requests but one as it is
OneRequestStep ==
    \E r \in ReqIds : \A q \in ReqIds \ {r} : Local(q)' = Local(q)

\* what the k-th call of r ended in, as far as r's own state records it
OwnCallResults(r, k) ==
    IF outcomes[r][k] = "returned" THEN {Returned(responses[r][k])}
    ELSE {Failed(GatewayFailure(e)) : e \in TransportErrors}

\* the result of r is what evaluate_all computes from the input of r, the
\* outcomes of r's own calls and jitter values of `variations`
Reproducible(r, variations) ==
    LET scores == result[r].metric_scores
        low_scores == LowScores(scores)
    IN  /\ \E call \in OwnCallResults(r, 1), v \in variations,
              t \in BOOLEAN :
              scores = evaluate_all_metrics(evaluation_input[r], call, v, t)
        /\ \E t \in BOOLEAN : result[r].overall_score = OverallScore(scores, t)
        /\ \E call \in OwnCallResults(r, 2) :
              Some(result[r].summary) = _generate_summary(call)
        /\ IF low_scores = <<>>
           THEN /\ result[r].recommendations = QualityIsGood
                /\ calls[r] = <<call_with_system_prompt(evaluation_input[r]),
                                call_for_summary(scores)>>
           ELSE /\ \E call \in OwnCallResults(r, 3) :
                      result[r].recommendations =
                          _generate_recommendations(call)
                /\ calls[r] = <<call_with_system_prompt(evaluation_input[r]),
                                call_for_summary(scores),
                                call_for_recommendations(low_scores)>>
        /\ result[r].session_id = evaluation_input[r].session_id

\* the guard of the return actions: the current call of q can end
CanReturn(q) ==
    /\ pc[q] = "attempt"
    /\ running = RequestTask(q)
    /\ CallResults(q,
          CASE CurrentContext(q) = "custom_evaluation" ->
                   BriefMetricContents(evaluation_input[q])
            [] CurrentContext(q) = "summary" -> BriefSummaryContents
            [] OTHER -> BriefRecommendationContents) # {}

(***************************************************************************)
(* C11 as claimed: with several requests in flight, under every            *)
(* interleaving, no state is shared between requests: every step writes    *)
(* the state of one request only, and each result is determined by the     *)
(* request's input and the gateway responses to its own calls (no jitter   *)
(* value of a shared generator enters it).                                 *)
(***************************************************************************)
C11_NoSharedState ==
    /\ [](\A r \in ReqIds : HasReturned(r) => Reproducible(r, {NoVariation}))
    /\ [][OneRequestStep /\ random_state' = random_state]_vars

(***************************************************************************)
(* C11 as amended: under every interleaving each result is determined by   *)
(* the request's input, the gateway responses to its own calls and, under  *)
(* Protocol A, the jitter values drawn for it; every step writes the       *)
(* state of one request only, and the one state requests share is the      *)
(* generator of the random module, which every Protocol A request whose    *)
(* gateway call succeeded advances.                                        *)
(***************************************************************************)
C11_OnlyGeneratorShared ==
    /\ [](\A r \in ReqIds : HasReturned(r) => Reproducible(r, BriefVariations))
    /\ [][/\ OneRequestStep
          /\ random_state' # random_state =>
                \E r \in ReqIds :
                    /\ ProtocolA(r)
                    /\ outcomes[r] = <<>>
                    /\ outcomes'[r] = <<"returned">>]_vars

\* a result is out while the other request, which has drawn from the
\* generator too, sleeps between two attempts
C11_Witness ==
    /\ HasReturned(1)
    /\ pc[2] = "sleep"
    /\ ProtocolA(1) /\ ProtocolA(2)
    /\ random_state = 2 * Len(validation_expected_metrics)
    /\ result[1].metric_scores # metric_scores[2]

(***************************************************************************)
(* C12: a request is suspended only in the backoff sleep of _call_api (any *)
(* other request that has begun and not ended holds the event loop), a     *)
(* sleeping request does not hold the loop, and while a request sleeps     *)
(* every other request in flight or waiting to start can take a step,      *)
(* unless a third request is running.                                      *)
(***************************************************************************)
C12_SleepDoesNotBlock ==
    \A r \in ReqIds :
        /\ pc[r] = "attempt" => running = RequestTask(r)
        /\ pc[r] = "sleep" => running # RequestTask(r)
        /\ \A q \in ReqIds \ {r} :
              (/\ pc[r] = "sleep"
               /\ pc[q] \in {"idle", "attempt", "sleep"}
               /\ \A o \in ReqIds \ {r, q} : running # RequestTask(o))
                  => \/ ENABLED (\/ EvaluateAll(q)
                                 \/ TransportFailure(q)
                                 \/ BackoffWake(q))
                     \/ CanReturn(q)

\* request 1 sleeps before its second retry while request 2, which started
\* later, is in the transport attempt of its summary call
C12_Witness ==
    /\ pc[1] = "sleep"
    /\ retry_count[1] = 1
    /\ pc[2] = "attempt"
    /\ CurrentContext(2) = "summary"

(***************************************************************************)
(* C13: every metrics-info entry point (the handler of /metrics/info in    *)
(* main.py and get_metrics_info of the layered service) describes exactly  *)
(* the nine canonical metrics, each with the weight METRIC_WEIGHTS gives   *)
(* it in the overall-score computation.                                    *)
(***************************************************************************)
C13_MetricsInfoMatchesWeights ==
    metrics_info # <<>> =>
        /\ [i \in 1..Len(metrics_info) |-> metrics_info[i].name]
               = CanonicalMetrics
        /\ \A i \in 1..Len(metrics_info) :
               /\ metrics_info[i].name \in DOMAIN METRIC_WEIGHTS
               /\ metrics_info[i].weight =
                      METRIC_WEIGHTS[metrics_info[i].name]

(***************************************************************************)
(* C14: in every result, whichever path produced it, session_id is the     *)
(* request's session_id and evaluation_metadata is exactly backlog_type =  *)
(* the request's backlog_type, content_length = the length of the          *)
(* request's formatted_output, context_items = the number of the request's *)
(* context items; and no step changes a request.                           *)
(***************************************************************************)
C14_SessionAndMetadata ==
    /\ [](\A r \in ReqIds :
             HasReturned(r) =>
                 /\ result[r].session_id = evaluation_input[r].session_id
                 /\ DOMAIN result[r].evaluation_metadata =
                        {"backlog_type", "content_length", "context_items"}
                 /\ result[r].evaluation_metadata.backlog_type =
                        evaluation_input[r].backlog_type
                 /\ result[r].evaluation_metadata.content_length =
                        Len(evaluation_input[r].formatted_output)
                 /\ result[r].evaluation_metadata.context_items =
                        Len(evaluation_input[r].context))
    /\ [][evaluation_input' = evaluation_input]_vars

\* a result on the fallback path (the gateway failed for all three calls)
\* for a request with four characters of content and two context items
C14_Witness ==
    \E r \in ReqIds :
        /\ HasReturned(r)
        /\ AllCallsFailed(r)
        /\ Len(outcomes[r]) = 3
        /\ Len(evaluation_input[r].formatted_output) = 4
        /\ Len(evaluation_input[r].context) = 2
        /\ result[r].session_id = "s-1"

(***************************************************************************)
(* C15: test_connection never raises; it returns true exactly when the     *)
(* probe call returned (within MAX_RETRIES retries) and false when the     *)
(* gateway failed on every one of the MAX_RETRIES + 1 attempts; the probe  *)
(* writes nothing an evaluation reads: its steps leave the state of every  *)
(* request and the generator as they are, and the result of an evaluation  *)
(* interleaved with the probe is what evaluate_all computes from the       *)
(* request's own input and calls.                                          *)
(***************************************************************************)
ProbeMoves ==
    \E r \in ReqIds :
        \/ probe_pc[r] # "off" /\ probe_pc'[r] # probe_pc[r]
        \/ probe_retry'[r] # probe_retry[r]
        \/ probe_outcome'[r] # probe_outcome[r]
        \/ connection_ok'[r] # connection_ok[r]

C15_ProbeOnlyObserves ==
    /\ [](\A r \in ReqIds :
             /\ probe_pc[r] # "error"
             /\ probe_retry[r] <= MAX_RETRIES
             /\ probe_pc[r] = "done" =>
                    /\ connection_ok[r] <=> probe_outcome[r] = "returned"
                    /\ ~connection_ok[r] =>
                           /\ probe_outcome[r] = "failed"
                           /\ probe_retry[r] = MAX_RETRIES
             /\ HasReturned(r) => Reproducible(r, BriefVariations))
    /\ [][ProbeMoves =>
              /\ \A q \in ReqIds : Local(q)' = Local(q)
              /\ random_state' = random_state]_vars

\* the probe has failed on all its attempts while the evaluation, whose
\* metric call succeeded, sleeps in the backoff of its summary call
C15_Witness ==
    \E r \in ReqIds :
        /\ probe_pc[r] = "done"
        /\ ~connection_ok[r]
        /\ pc[r] = "sleep"
        /\ CurrentContext(r) = "summary"
        /\ outcomes[r] = <<"returned">>

(***************************************************************************)
(* Vocabulary of the Protocol A properties.                                *)
(***************************************************************************)
\* the metric call of r returned a text whose JSON object decodes
DecodedResponse(r) ==
    /\ MetricsEvaluated(r)
    /\ outcomes[r][1] = "returned"
    /\ responses[r][1].some
    /\ ~EmptyResponse(responses[r][1])
    /\ ~NoJsonFound(responses[r][1])
    /\ ~MalformedJson(responses[r][1])

\* the member `key` of that object
ResponseMember(r, key) ==
    LET text == Strip(responses[r][1].text)
    IN  JsonLoads(Slice(text, Find(text, "{"), RFind(text, "}") + 1),
                  responses[r][1].members).object[key]

\* all nine metrics: score within [low, high], the confidence, the reasoning
NineScores(scores, low, high, confidence, reasoning) ==
    /\ Len(scores) = 9
    /\ \A i \in 1..Len(scores) :
           /\ low <= scores[i].score /\ scores[i].score <= high
           /\ scores[i].confidence = confidence
           /\ scores[i].reasoning = reasoning

\* the conversion of the response of r has just happened
JustConverted(r) ==
    /\ Len(outcomes[r]) = 1
    /\ pc[r] = "attempt"
    /\ retry_count[r] = 0

(***************************************************************************)
(* C16 as claimed: under Protocol A, whenever the response has proceed =   *)
(* true all nine metrics have a score within [0.80, 0.90], confidence 0.9  *)
(* and no reasoning; whenever it has proceed = false all nine have a score *)
(* within [0.30, 0.40], confidence 0.8 and the response's reason as        *)
(* reasoning.                                                              *)
(***************************************************************************)
C16_ProceedDecidesScores ==
    \A r \in ReqIds :
        (ProtocolA(r) /\ DecodedResponse(r)) =>
            /\ ResponseMember(r, "proceed") = JBool(TRUE) =>
                   NineScores(metric_scores[r], 800, 900, 900, None)
            /\ ResponseMember(r, "proceed") = JBool(FALSE) =>
                   /\ ResponseMember(r, "reason").kind = "str"
                   /\ NineScores(metric_scores[r], 300, 400, 800,
                                 Some(ResponseMember(r, "reason").str))

(***************************************************************************)
(* C16 as amended: under Protocol A, for a response that holds a boolean   *)
(* proceed and a string reason, and every jitter value in [-0.05, +0.05]:  *)
(* proceed = true gives nine scores within [0.80, 0.90], confidence 0.9,   *)
(* no reasoning; proceed = false gives nine scores within [0.30, 0.40],    *)
(* confidence 0.8 and the reason as reasoning of all nine; the jitter      *)
(* never moves a score across 0.65.  Outside that format: proceed = true   *)
(* with a reason of any type scores the same way; a response lacking       *)
(* proceed or reason is scored as a rejection with the reason "Invalid     *)
(* response format from validation agent"; proceed = false with a null     *)
(* reason is scored as a rejection without reasoning; proceed = false with *)
(* a reason that is neither a string nor null gives the uniform fallback   *)
(* (0.5 / 0.1).                                                            *)
(***************************************************************************)
C16_WellFormedValidation ==
    \A r \in ReqIds :
        (ProtocolA(r) /\ DecodedResponse(r)) =>
            LET proceed == ResponseMember(r, "proceed")
                reason == ResponseMember(r, "reason")
                scores == metric_scores[r]
            IN  /\ JustConverted(r) =>
                       \A v \in (0 - 50)..50, t \in BOOLEAN :
                           /\ 800 <= FinalScore(850, v, t)
                           /\ FinalScore(850, v, t) <= 900
                           /\ 300 <= FinalScore(350, v, t)
                           /\ FinalScore(350, v, t) <= 400
                /\ (proceed = JBool(TRUE) /\ reason.kind # "absent") =>
                       NineScores(scores, 800, 900, 900, None)
                /\ (proceed = JBool(FALSE) /\ reason.kind = "str") =>
                       NineScores(scores, 300, 400, 800, Some(reason.str))
                /\ (proceed = JBool(FALSE) /\ reason.kind = "null") =>
                       NineScores(scores, 300, 400, 800, None)
                /\ (proceed = JBool(FALSE)
                        /\ reason.kind \notin {"str", "null", "absent"}) =>
                       /\ UniformFallback(scores)
                       /\ \A i \in 1..Len(scores) :
                              /\ scores[i].reasoning.some
                              /\ Contains(scores[i].reasoning.text,
                                          <<"Validation error: ">>)
                /\ (proceed.kind = "absent" \/ reason.kind = "absent") =>
                       NineScores(scores, 300, 400, 800,
                           Some(<<"Invalid response format from validation agent">>))

\* a rejection whose jitter is -0.05 for the first metric and +0.05 for the
\* second: both carry the reason of the response
C16_Witness ==
    \E r \in ReqIds :
        /\ ProtocolA(r)
        /\ DecodedResponse(r)
        /\ ResponseMember(r, "proceed") = JBool(FALSE)
        /\ ResponseMember(r, "reason") = JStr(<<"Title missing">>)
        /\ metric_scores[r][1].score = 300
        /\ metric_scores[r][2].score = 400
        /\ metric_scores[r][2].reasoning = Some(<<"Title missing">>)

(***************************************************************************)
(* Vocabulary of the extraction properties: the rule "from the first '{'   *)
(* through the last '}'" on a trimmed text, by positions (1-based).        *)
(***************************************************************************)
Positions(t, c) == {i \in 1..Len(t) : t[i] = c}

FirstOf(ps) == CHOOSE i \in ps : \A j \in ps : i <= j

LastOf(ps) == CHOOSE i \in ps : \A j \in ps : j <= i

\* the text has a '{' and its last '}' lies after its first '{'
HasObjectText(t) ==
    /\ Positions(t, "{") # {}
    /\ Positions(t, "}") # {}
    /\ LastOf(Positions(t, "}")) > FirstOf(Positions(t, "{"))

SelectedText(t) ==
    SubSeq(t, FirstOf(Positions(t, "{")), LastOf(Positions(t, "}")))

\* the metric call of r returned a text; the text trimmed
TextReturned(r) ==
    MetricsEvaluated(r) /\ outcomes[r][1] = "returned" /\ responses[r][1].some

Trimmed(r) == Strip(responses[r][1].text)

\* all nine metrics carry a reasoning that starts with `message`
ReasoningStarts(scores, message) ==
    /\ Len(scores) = 9
    /\ \A i \in 1..Len(scores) :
           /\ scores[i].reasoning.some
           /\ Len(scores[i].reasoning.text) >= Len(message)
           /\ SubSeq(scores[i].reasoning.text, 1, Len(message)) = message

\* what the protocol of r reports when it finds no JSON object
NoJsonMessage(r) ==
    IF ProtocolA(r) THEN <<"No valid JSON found in validation response">>
    ELSE <<"No JSON found in response">>

\* the scores of r are those of a response that is the selected text alone
ScoresOfSelected(r) ==
    LET selected == Content(SelectedText(Trimmed(r)), responses[r][1].members)
    IN  \E v \in ScoreVariations, t \in BOOLEAN :
            metric_scores[r] =
                evaluate_all_metrics(evaluation_input[r], Returned(selected),
                                     v, t)

\* the extraction rule for a text that has an object to select
SelectedIsDecoded(r) ==
    HasObjectText(Trimmed(r)) =>
        IF JsonLoads(SelectedText(Trimmed(r)), responses[r][1].members).ok
        THEN ScoresOfSelected(r)
        ELSE ReasoningStarts(metric_scores[r], <<"JSON parsing error: ">>)

(***************************************************************************)
(* C17 as claimed: in both protocols, after trimming, a text with a '{'    *)
(* whose last '}' lies after its first '{' has exactly the substring from  *)
(* the first '{' through the last '}' decoded, and a substring that does   *)
(* not decode gives the malformed-JSON outcome; every other text (no '{',  *)
(* no '}', every '}' before the first '{') gives the outcome "no JSON      *)
(* found".                                                                 *)
(***************************************************************************)
C17_ExtractionRule ==
    \A r \in ReqIds :
        TextReturned(r) =>
            /\ SelectedIsDecoded(r)
            /\ ~HasObjectText(Trimmed(r)) =>
                   ReasoningStarts(metric_scores[r], NoJsonMessage(r))

(***************************************************************************)
(* C17 as amended: the rule as claimed, except that under Protocol B a     *)
(* text that is empty after trimming is reported as "Empty response from   *)
(* AI" before any extraction is tried; under Protocol A the empty text     *)
(* gives "no JSON found" like every other text without an object.          *)
(***************************************************************************)
C17_ExtractionRuleAfterEmptyCheck ==
    \A r \in ReqIds :
        TextReturned(r) =>
            /\ SelectedIsDecoded(r)
            /\ ~HasObjectText(Trimmed(r)) =>
                   IF ~ProtocolA(r) /\ Trimmed(r) = <<>>
                   THEN ReasoningStarts(metric_scores[r],
                                        <<"Empty response from AI">>)
                   ELSE ReasoningStarts(metric_scores[r], NoJsonMessage(r))

\* an object wrapped in prose under Protocol B: the text between its braces
\* was decoded and scored
C17_Witness ==
    \E r \in ReqIds :
        /\ TextReturned(r)
        /\ ~ProtocolA(r)
        /\ HasObjectText(Trimmed(r))
        /\ FirstOf(Positions(Trimmed(r), "{")) > 1
        /\ LastOf(Positions(Trimmed(r), "}")) < Len(Trimmed(r))
        /\ metric_scores[r][1].score = 680

(***************************************************************************)
(* C18: the retry protocol of _call_api.  A call is given up only when the *)
(* attempt with retry_count = MAX_RETRIES has failed, that is after the    *)
(* initial attempt and exactly MAX_RETRIES retries; retry number k + 1     *)
(* (k = 0 .. MAX_RETRIES - 1) comes after a sleep of RETRY_DELAY * 2^k and *)
(* nothing else raises retry_count; the failure of the metric call carries *)
(* "failed after MAX_RETRIES retries" and the underlying error into the    *)
(* reasoning; an attempt that succeeds ends the call with its content: the *)
(* next attempt belongs to the next call, or there is none.                *)
(***************************************************************************)
CallEnds(r, outcome) ==
    /\ Len(outcomes'[r]) = Len(outcomes[r]) + 1
    /\ outcomes'[r][Len(outcomes'[r])] = outcome

C18_RetryProtocol ==
    /\ [](\A r \in ReqIds :
             /\ retry_count[r] \in 0..MAX_RETRIES
             /\ pc[r] = "sleep" =>
                    /\ retry_count[r] < MAX_RETRIES
                    /\ sleep_delay[r] = RETRY_DELAY * 2^retry_count[r]
             /\ pc[r] # "sleep" => sleep_delay[r] = 0
             /\ Len(calls[r]) - Len(outcomes[r]) =
                    IF pc[r] \in {"attempt", "sleep"} THEN 1 ELSE 0)
    /\ [][\A r \in ReqIds :
             /\ CallEnds(r, "failed") => retry_count[r] = MAX_RETRIES
             /\ (CallEnds(r, "failed") /\ Len(outcomes[r]) = 0) =>
                    \E e \in TransportErrors :
                        \A i \in 1..Len(metric_scores'[r]) :
                            Contains(metric_scores'[r][i].reasoning.text,
                                <<"Portkey API failed after ", Str(MAX_RETRIES),
                                  " retries: ">> \o e)
             /\ CallEnds(r, "returned") =>
                    /\ pc[r] = "attempt"
                    /\ responses'[r] =
                           Append(responses[r],
                                  responses'[r][Len(responses'[r])])
                    /\ retry_count'[r] = 0
                    /\ \/ Len(calls'[r]) = Len(calls[r]) + 1
                       \/ pc'[r] \in {"done", "raised"}
             /\ retry_count'[r] > retry_count[r] =>
                    /\ retry_count'[r] = retry_count[r] + 1
                    /\ pc[r] = "sleep" /\ pc'[r] = "attempt"
                    /\ calls'[r] = calls[r] /\ outcomes'[r] = outcomes[r]
             /\ (pc'[r] = "sleep" /\ pc[r] # "sleep") =>
                    /\ pc[r] = "attempt"
                    /\ retry_count'[r] = retry_count[r]
                    /\ outcomes'[r] = outcomes[r]]_vars

\* the metric call was given up and the summary call sleeps before its
\* third retry
C18_Witness ==
    \E r \in ReqIds :
        /\ outcomes[r] = <<"failed">>
        /\ pc[r] = "sleep"
        /\ retry_count[r] = MAX_RETRIES - 1
        /\ sleep_delay[r] = 4 * RETRY_DELAY

(***************************************************************************)
(* C19: for every request exactly one protocol runs: Protocol A if and     *)
(* only if the lower-cased system_prompt contains "validation agent",      *)
(* otherwise Protocol B; and one logical metric-evaluation call is issued  *)
(* per request, the first call, under the system_prompt of the request.    *)
(***************************************************************************)
\* "validation agent" occurs in the prompt, letter case aside
MentionsValidationAgent(prompt) ==
    \E k \in 0..(Len(prompt) - Len(ValidationAgent)) :
        \A j \in 1..Len(ValidationAgent) :
            LowerChar(prompt[k + j]) = ValidationAgent[j]

MetricCalls(r) ==
    {k \in 1..Len(calls[r]) : calls[r][k].context = "custom_evaluation"}

C19_OneProtocolOneCall ==
    \A r \in ReqIds :
        /\ pc[r] \notin {"off", "idle"} =>
               /\ MetricCalls(r) = {1}
               /\ calls[r][1].system = evaluation_input[r].system_prompt
        /\ MetricsEvaluated(r) =>
               IF MentionsValidationAgent(evaluation_input[r].system_prompt)
               THEN /\ \E call \in OwnCallResults(r, 1),
                          v \in ScoreVariations, t \in BOOLEAN :
                          metric_scores[r] =
                              _handle_validation_prompt(call, v, t)
                    /\ outcomes[r][1] = "failed" =>
                           ReasoningStarts(metric_scores[r],
                                           <<"Validation error: ">>)
               ELSE /\ \E call \in OwnCallResults(r, 1), t \in BOOLEAN :
                          metric_scores[r] = _handle_evaluation_prompt(call, t)
                    /\ outcomes[r][1] = "failed" =>
                           ReasoningStarts(metric_scores[r],
                                           <<"Evaluation error: ">>)
                    /\ random_state = 0

\* "You are a Validation Agent." selects Protocol A: the approval of the
\* response is scored 0.85 with confidence 0.9
C19_Witness ==
    \E r \in ReqIds :
        /\ evaluation_input[r].system_prompt = ValidationPrompt
        /\ MetricsEvaluated(r)
        /\ outcomes[r][1] = "returned"
        /\ metric_scores[r][1].score = 850
        /\ metric_scores[r][1].confidence = 900
        /\ Len(calls[r]) = 2

(***************************************************************************)
(* C20: under Protocol B an empty response, a response without a JSON      *)
(* object and a response whose JSON does not decode each give the uniform  *)
(* fallback (nine metrics at 0.5 / 0.1) with a reasoning that names the    *)
(* stage, and so does a gateway failure; the four messages are pairwise    *)
(* different, none being the beginning of another.                         *)
(***************************************************************************)
StageMessages ==
    {<<"Empty response from AI">>, <<"No JSON found in response">>,
     <<"JSON parsing error: ">>, <<"Evaluation error: ">>}

\* the stage messages the reasoning of every metric starts with
StagesNamed(scores) == {m \in StageMessages : ReasoningStarts(scores, m)}

C20_FailureStagesNamed ==
    \A r \in ReqIds :
        (~ProtocolA(r) /\ MetricsEvaluated(r)) =>
            LET content == responses[r][1]
                scores == metric_scores[r]
                stage(m) == UniformFallback(scores) /\ StagesNamed(scores) = {m}
            IN  /\ Cardinality(StageMessages) = 4
                /\ (outcomes[r][1] = "returned" /\ EmptyResponse(content)) =>
                       /\ stage(<<"Empty response from AI">>)
                       /\ scores[1].reasoning.text = <<"Empty response from AI">>
                /\ (outcomes[r][1] = "returned" /\ NoJsonFound(content)) =>
                       /\ stage(<<"No JSON found in response">>)
                       /\ scores[1].reasoning.text =
                              <<"No JSON found in response">>
                /\ (outcomes[r][1] = "returned" /\ MalformedJson(content)) =>
                       stage(<<"JSON parsing error: ">>)
                /\ outcomes[r][1] = "failed" =>
                       /\ stage(<<"Evaluation error: ">>)
                       /\ \E e \in TransportErrors :
                              Contains(scores[1].reasoning.text, e)

\* prose without an object under Protocol B, in the returned result
C20_Witness ==
    \E r \in ReqIds :
        /\ HasReturned(r)
        /\ ~ProtocolA(r)
        /\ outcomes[r][1] = "returned"
        /\ NoJsonFound(responses[r][1])
        /\ UniformFallback(result[r].metric_scores)
        /\ result[r].metric_scores[9].reasoning =
               Some(<<"No JSON found in response">>)

(***************************************************************************)
(* Vocabulary of the Protocol B properties.                                *)
(***************************************************************************)
\* the canonical metrics the decoded object of r has a key for
MetricsPresent(r) ==
    {m \in MetricNames : ResponseMember(r, m).kind # "absent"}

(***************************************************************************)
(* C21: under Protocol B, a decoded object with none of the nine canonical *)
(* metric names (such as {}) gives the uniform fallback, nine metrics at   *)
(* 0.5 / 0.1, with the message of that stage.                              *)
(***************************************************************************)
C21_ZeroExtractedIsFallback ==
    \A r \in ReqIds :
        (~ProtocolA(r) /\ DecodedResponse(r) /\ MetricsPresent(r) = {}) =>
            /\ UniformFallback(metric_scores[r])
            /\ ReasoningStarts(metric_scores[r],
                   <<"No valid metric scores found in response">>)

(***************************************************************************)
(* C22: under Protocol A, a decoded object that lacks proceed or lacks     *)
(* reason is scored exactly as proceed = false with the reason "Invalid    *)
(* response format from validation agent": every metric has the base score *)
(* 0.35 plus its jitter, confidence 0.8 and that reason as reasoning,      *)
(* whatever the field that is present says.                                *)
(***************************************************************************)
InvalidFormatReason == <<"Invalid response format from validation agent">>

\* the scores of a rejection with `reason`, for some jitter
RejectionScores(scores, reason) ==
    \E v \in ScoreVariations, t \in BOOLEAN :
        LET converted ==
                _convert_validation_to_metrics(
                    ValidationResult(JBool(FALSE), JStr(reason)), v, t)
        IN  ~converted.raised /\ scores = converted.value

C22_MissingFieldIsRejection ==
    \A r \in ReqIds :
        (/\ ProtocolA(r)
         /\ DecodedResponse(r)
         /\ \/ ResponseMember(r, "proceed").kind = "absent"
            \/ ResponseMember(r, "reason").kind = "absent") =>
            /\ RejectionScores(metric_scores[r], InvalidFormatReason)
            /\ \A i \in 1..Len(metric_scores[r]) :
                   /\ metric_scores[r][i].score >= 300
                   /\ metric_scores[r][i].score <= 400
                   /\ metric_scores[r][i].confidence = 800
                   /\ metric_scores[r][i].reasoning = Some(InvalidFormatReason)

\* {"proceed": true} without a reason, scored as a rejection and returned
C22_Witness ==
    \E r \in ReqIds :
        /\ HasReturned(r)
        /\ ProtocolA(r)
        /\ DecodedResponse(r)
        /\ ResponseMember(r, "proceed") = JBool(TRUE)
        /\ ResponseMember(r, "reason").kind = "absent"
        /\ Len(result[r].metric_scores) = 9
        /\ result[r].metric_scores[1].score <= 400
        /\ result[r].metric_scores[1].confidence = 800
        /\ result[r].metric_scores[9].reasoning = Some(InvalidFormatReason)

(***************************************************************************)
(* The normaliser rules, stated per metric value.                          *)
(***************************************************************************)
\* s is x limited to [0, 1] and rounded to 2 decimals (x, s in thousandths)
IsClampedRounded(s, x) ==
    LET c == IF x < 0 THEN 0 ELSE IF x > 1000 THEN 1000 ELSE x
    IN  s % 10 = 0 /\ s - c <= 5 /\ c - s <= 5

IsClamped(s, x) ==
    s = (IF x < 0 THEN 0 ELSE IF x > 1000 THEN 1000 ELSE x)

\* a record with a numeric score and a numeric confidence, or none
NumericRecord(v) ==
    /\ v.kind = "object"
    /\ v.score.kind = "num"
    /\ v.confidence.kind \in {"absent", "num"}

BareNumber(v) == v.kind = "num"

\* a number, or a text float() reads as a number
IsNumeric(v) ==
    v.kind \in {"num", "bool"} \/ (v.kind = "str" /\ v.str \in NumericStrings)

\* a value the conversion to MetricScore raises on when a score below
\* `low` rounds to less than 0.65: a record whose score or confidence is no
\* number, or whose score is low while its reasoning is neither a text nor
\* null; the literal NaN
RaisesBelow(v, low) ==
    \/ v.kind = "nan"
    \/ /\ v.kind = "object"
       /\ v.score.kind # "absent"
       /\ \/ ~IsNumeric(v.score)
          \/ v.confidence.kind # "absent" /\ ~IsNumeric(v.confidence)
          \/ /\ v.score.kind = "num"
             /\ v.score.num < low
             /\ v.reasoning.kind \notin {"absent", "null", "str"}

\* 0.645 rounds to 0.64 or to 0.65: the conversion raises for sure, or may
Unconvertible(v) == RaisesBelow(v, 645)

MayNotConvert(v) == RaisesBelow(v, 646)

\* ms is what the rules give for the value v of metric m
FollowsRules(ms, m, v) ==
    /\ ms.metric = m
    /\ v.kind = "absent" =>
           /\ ms.score = 500
           /\ ms.confidence = 300
           /\ ms.reasoning = Some(<<"Metric ", m, " not found in AI response">>)
    /\ NumericRecord(v) =>
           /\ IsClampedRounded(ms.score, v.score.num)
           /\ IsClamped(ms.confidence,
                        IF v.confidence.kind = "absent" THEN 800
                        ELSE v.confidence.num)
    /\ BareNumber(v) =>
           /\ IsClampedRounded(ms.score, v.num)
           /\ ms.confidence = 700
           /\ ms.reasoning.some =>
                  ms.reasoning.text =
                      <<"Score provided without detailed reasoning">>

RulesPerMetric(r) ==
    /\ Len(metric_scores[r]) = 9
    /\ \A i \in 1..9 :
           FollowsRules(metric_scores[r][i], CanonicalMetrics[i],
                        ResponseMember(r, CanonicalMetrics[i]))

(***************************************************************************)
(* C23 as claimed: under Protocol B after a successful decode, the         *)
(* MetricScore of each canonical metric follows the normaliser rules for   *)
(* that metric's value alone: 0.5 / 0.3 and the "not found" reasoning for  *)
(* an absent key, the clamped and rounded score and the clamped confidence *)
(* (0.8 by default) for a record, the clamped and rounded score with       *)
(* confidence 0.7 and the placeholder reasoning for a bare number.         *)
(***************************************************************************)
C23_RulesPerMetricAlone ==
    \A r \in ReqIds : (~ProtocolA(r) /\ DecodedResponse(r)) => RulesPerMetric(r)

(***************************************************************************)
(* C23 as amended: the same, for a decoded object in which no canonical    *)
(* metric has a value the conversion raises on; when one has, none of the  *)
(* nine follows its rule: all are the 0.5 / 0.1 fallback.                  *)
(***************************************************************************)
C23_RulesPerMetricWhenConvertible ==
    \A r \in ReqIds :
        (~ProtocolA(r) /\ DecodedResponse(r)) =>
            /\ (\E m \in MetricNames : Unconvertible(ResponseMember(r, m))) =>
                   UniformFallback(metric_scores[r])
            /\ (\A m \in MetricNames : ~MayNotConvert(ResponseMember(r, m))) =>
                   RulesPerMetric(r)

\* bare 1.5 for clarity next to records for the other metrics, returned
C23_Witness ==
    \E r \in ReqIds :
        /\ HasReturned(r)
        /\ ~ProtocolA(r)
        /\ DecodedResponse(r)
        /\ ResponseMember(r, "clarity") = JNum(1500)
        /\ ResponseMember(r, "relevance") =
               JObj(JNum(400), JStr(<<"weak">>), JNum(600))
        /\ result[r].metric_scores[4] = MetricScore("clarity", 1000, None, 700)
        /\ result[r].metric_scores[1] =
               MetricScore("relevance", 400, Some(<<"weak">>), 600)

(***************************************************************************)
(* C24: under Protocol B the keys of the decoded object that are no        *)
(* canonical metric names are ignored: the metric scores and the overall   *)
(* score of a response are those of every response whose object agrees     *)
(* with it on the nine canonical names, whatever the other keys hold, and  *)
(* no MetricScore is made for another key.                                 *)
(***************************************************************************)
ExtraValues ==
    {JAbsent, JNull, JBool(TRUE), JNum(0), JStr(<<"Title missing">>),
     JObj(JNum(100), JStr(<<"n/a">>), JStr(<<"sure">>))}

\* the decoded object of r
DecodedObject(r) == [k \in AllKeys |-> ResponseMember(r, k)]

\* the objects that agree with `object` on the canonical names
AgreeingObjects(object) ==
    {WithExtraKeys(object, p, rs, n) :
        p \in ExtraValues, rs \in ExtraValues, n \in ExtraValues}

HasExtraKeys(r) ==
    \E k \in AllKeys \ MetricNames : ResponseMember(r, k).kind # "absent"

C24_ExtraKeysIgnored ==
    \A r \in ReqIds :
        (~ProtocolA(r) /\ DecodedResponse(r) /\ JustConverted(r)) =>
            /\ \A i \in 1..Len(metric_scores[r]) :
                   metric_scores[r][i].metric \in MetricNames
            /\ \E t \in BOOLEAN, u \in BOOLEAN :
                   \A other \in AgreeingObjects(DecodedObject(r)) :
                       LET scores ==
                               _handle_evaluation_prompt(
                                   Returned(Content(<<"{", "members", "}">>,
                                                    other)), t)
                       IN  /\ metric_scores[r] = scores
                           /\ overall_score[r] = OverallScore(scores, u)

\* a response with proceed, reason and notes next to its metrics, converted
C24_Witness ==
    \E r \in ReqIds :
        /\ ~ProtocolA(r)
        /\ DecodedResponse(r)
        /\ JustConverted(r)
        /\ ResponseMember(r, "notes").kind = "object"
        /\ ResponseMember(r, "proceed") = JBool(FALSE)
        /\ ResponseMember(r, "relevance") = JNum(680)
        /\ metric_scores[r][1] = MetricScore("relevance", 680, None, 700)
        /\ Len(metric_scores[r]) = 9

(***************************************************************************)
(* C25: within a request the summary call and the recommendations call are *)
(* issued only when the metric-evaluation call has ended, retries and      *)
(* backoff sleeps included, with the nine metric scores and the overall    *)
(* score computed; from then on the scores stay as they are and no attempt *)
(* of the metric-evaluation call follows; at most one call is in progress. *)
(***************************************************************************)
ContextsOf(r) == [i \in 1..Len(calls[r]) |-> calls[r][i].context]

\* the step issues a call of r
Issues(r) == Len(calls'[r]) > Len(calls[r])

LaterContexts == {"summary", "recommendations"}

C25_ScoresBeforeTexts ==
    [][\A r \in ReqIds :
          /\ Issues(r) =>
                 /\ Len(calls'[r]) = Len(calls[r]) + 1
                 /\ Len(outcomes'[r]) = Len(calls[r])
                 /\ calls'[r][1].context = "custom_evaluation"
                 /\ calls'[r][Len(calls'[r])].context \in LaterContexts =>
                        /\ Len(outcomes'[r]) >= 1
                        /\ pc[r] = "attempt"
                        /\ Len(metric_scores'[r]) = 9
                        /\ \E t \in BOOLEAN :
                               overall_score'[r] =
                                   OverallScore(metric_scores'[r], t)
          /\ Len(calls[r]) >= 2 =>
                 /\ metric_scores'[r] = metric_scores[r]
                 /\ overall_score'[r] = overall_score[r]
                 /\ \A i \in 2..Len(calls'[r]) :
                        calls'[r][i].context \in LaterContexts
          /\ Len(calls'[r]) - Len(outcomes'[r]) \in {0, 1}
      ]_vars

\* the metric-evaluation call failed after its retries, then the summary and
\* the recommendations calls were made and the result returned
C25_Witness ==
    \E r \in ReqIds :
        /\ HasReturned(r)
        /\ ContextsOf(r) = <<"custom_evaluation", "summary", "recommendations">>
        /\ outcomes[r] = <<"failed", "returned", "returned">>
        /\ Len(result[r].metric_scores) = 9

(***************************************************************************)
(* C26: when the summary call fails after all retries the summary is the   *)
(* static sentence, and when the recommendations call fails after all      *)
(* retries the recommendations are the static recommendation; the step     *)
(* leaves the metric scores and the overall score as computed before, and  *)
(* the other text as it is (resp. as the other call decides); a result     *)
(* that is returned carries these values.                                  *)
(***************************************************************************)
\* the step ends the call of r with context c in a failure
FailsCall(r, c) ==
    /\ Len(outcomes'[r]) = Len(outcomes[r]) + 1
    /\ outcomes'[r][Len(outcomes'[r])] = "failed"
    /\ calls[r][Len(outcomes'[r])].context = c

ScoresKept(r) ==
    /\ metric_scores'[r] = metric_scores[r]
    /\ overall_score'[r] = overall_score[r]

\* the result the step returns carries the locals of evaluate_all
ReturnsLocals(r) ==
    (pc'[r] = "done" /\ pc[r] # "done") =>
        /\ result'[r].metric_scores = metric_scores[r]
        /\ result'[r].overall_score = overall_score[r]
        /\ summary'[r].some
        /\ result'[r].summary = summary'[r].text
        /\ result'[r].recommendations = recommendations'[r]

C26_TextFallbacksKeepScores ==
    [][\A r \in ReqIds :
          /\ FailsCall(r, "summary") =>
                 /\ summary'[r] = Some(StaticSummary)
                 /\ ScoresKept(r)
                 /\ IF \E i \in 1..Len(metric_scores[r]) :
                           metric_scores[r][i].score < 700
                    THEN /\ recommendations'[r] = recommendations[r]
                         /\ Issues(r)
                         /\ calls'[r][Len(calls'[r])].context =
                                "recommendations"
                    ELSE recommendations'[r] = QualityIsGood
                 /\ ReturnsLocals(r)
          /\ FailsCall(r, "recommendations") =>
                 /\ recommendations'[r] = StaticRecommendations
                 /\ summary'[r] = summary[r]
                 /\ ScoresKept(r)
                 /\ ReturnsLocals(r)
                 /\ pc'[r] = "done" <=> summary[r].some
      ]_vars

\* usable metric scores, then both text calls fail: the result has the two
\* static texts and the scores of the metric response
C26_Witness ==
    \E r \in ReqIds :
        /\ HasReturned(r)
        /\ outcomes[r] = <<"returned", "failed", "failed">>
        /\ result[r].summary = StaticSummary
        /\ result[r].recommendations = StaticRecommendations
        /\ result[r].metric_scores = metric_scores[r]
        /\ \E i \in 1..9 : result[r].metric_scores[i].confidence > 300

(***************************************************************************)
(* C27: under Protocol B one metric that cannot be converted spoils the    *)
(* evaluation: when the decoded object has a canonical metric whose record *)
(* holds a score or a confidence that is no number (a non-numeric text,    *)
(* null), all nine metrics are the uniform fallback, 0.5 / 0.1 with an     *)
(* "Evaluation error" message, and the scores the other metrics had in the *)
(* response are not kept.                                                  *)
(***************************************************************************)
NotANumber(v) ==
    v.kind = "null" \/ (v.kind = "str" /\ v.str \notin NumericStrings)

PoisonRecord(v) ==
    /\ v.kind = "object"
    /\ v.score.kind # "absent"
    /\ NotANumber(v.score) \/ NotANumber(v.confidence)

C27_OneBadMetricSpoilsAll ==
    \A r \in ReqIds :
        (/\ ~ProtocolA(r)
         /\ DecodedResponse(r)
         /\ \E m \in MetricNames : PoisonRecord(ResponseMember(r, m))) =>
            /\ UniformFallback(metric_scores[r])
            /\ ReasoningStarts(metric_scores[r], <<"Evaluation error: ">>)
            /\ \A i \in 1..9 :
                   /\ metric_scores[r][i].metric = CanonicalMetrics[i]
                   /\ metric_scores[r][i].reasoning = metric_scores[r][1].reasoning

\* relevance has the score "high", the other metrics the bare number 0.9:
\* the returned result has 0.5 / 0.1 for accuracy
C27_Witness ==
    \E r \in ReqIds :
        /\ HasReturned(r)
        /\ ~ProtocolA(r)
        /\ DecodedResponse(r)
        /\ ResponseMember(r, "relevance").kind = "object"
        /\ ResponseMember(r, "relevance").score = JStr(<<"high">>)
        /\ ResponseMember(r, "accuracy") = JNum(900)
        /\ result[r].metric_scores[2] =
               MetricScore("accuracy", 500,
                   Some(<<"Evaluation error: ",
                          "could not convert string to float: ", "high">>),
                   100)

(***************************************************************************)
(* C28: every evaluate_all terminates when every transport attempt does:   *)
(* it issues at most three logical calls, hence makes at most              *)
(* 3 * (MAX_RETRIES + 1) transport attempts and sleeps at most             *)
(* 3 * MAX_RETRIES times, and then returns its result.  Termination is     *)
(* stated by the attempts and the sleeps that are left: no step adds to    *)
(* them, every attempt that ends takes one attempt away and every sleep    *)
(* that ends one sleep, and a request that has no step left has returned.  *)
(***************************************************************************)
\* the calls of r that are not yet issued
CallsLeft(r) == 3 - Len(calls[r])

\* the transport attempts r can still make, the one in progress included
AttemptsLeft(r) ==
    CASE pc[r] = "idle" -> 3 * (MAX_RETRIES + 1)
      [] pc[r] = "attempt" ->
            (MAX_RETRIES + 1 - retry_count[r])
                + CallsLeft(r) * (MAX_RETRIES + 1)
      [] pc[r] = "sleep" ->
            (MAX_RETRIES - retry_count[r]) + CallsLeft(r) * (MAX_RETRIES + 1)
      [] OTHER -> 0

\* the backoff sleeps r can still make, the one in progress included
SleepsLeft(r) ==
    CASE pc[r] = "idle" -> 3 * MAX_RETRIES
      [] pc[r] \in {"attempt", "sleep"} ->
            (MAX_RETRIES - retry_count[r]) + CallsLeft(r) * MAX_RETRIES
      [] OTHER -> 0

\* the step ends a transport attempt of r, resp. a backoff sleep of r
EndsAttempt(r) == pc[r] = "attempt" /\ running = RequestTask(r)

EndsSleep(r) == pc[r] = "sleep" /\ pc'[r] # "sleep"

\* r has no step left
Terminated(r) == pc[r] \notin {"off", "idle", "attempt", "sleep"}

BoundedProgress(r) ==
    /\ AttemptsLeft(r)' >= 0
    /\ SleepsLeft(r)' >= 0
    /\ Len(calls'[r]) <= 3
    /\ AttemptsLeft(r)' <= AttemptsLeft(r)
    /\ SleepsLeft(r)' <= SleepsLeft(r)
    /\ EndsAttempt(r) => AttemptsLeft(r)' < AttemptsLeft(r)
    /\ EndsSleep(r) => SleepsLeft(r)' = SleepsLeft(r) - 1
    /\ pc[r] = "idle" =>
           /\ AttemptsLeft(r) = 3 * (MAX_RETRIES + 1)
           /\ SleepsLeft(r) = 3 * MAX_RETRIES

C28_TerminatesWithResult ==
    [][\A r \in ReqIds :
          /\ BoundedProgress(r)
          /\ Terminated(r)' => HasReturned(r)'
      ]_vars

(***************************************************************************)
(* C29: under Protocol A the validation outcome decides the number of      *)
(* logical calls of the request.  A response with proceed = true gives     *)
(* scores of at least 0.80, so the request makes two calls, validation     *)
(* then summary, and its recommendations are the fixed "quality is good"   *)
(* sentence; proceed = false or an unusable response (no response, no      *)
(* object, an object that does not decode or lacks one of the two keys)    *)
(* gives three calls: validation, summary, recommendations, in that order. *)
(***************************************************************************)
ProceedTrue(r) ==
    /\ DecodedResponse(r)
    /\ ResponseMember(r, "proceed") = JBool(TRUE)
    /\ ResponseMember(r, "reason").kind # "absent"

ProceedFalseOrUnusable(r) ==
    \/ ~DecodedResponse(r)
    \/ ResponseMember(r, "proceed").kind = "absent"
    \/ ResponseMember(r, "reason").kind = "absent"
    \/ ResponseMember(r, "proceed") = JBool(FALSE)

IsPrefix(s, t) == Len(s) <= Len(t) /\ s = SubSeq(t, 1, Len(s))

C29_OutcomeDecidesCalls ==
    \A r \in ReqIds :
        (ProtocolA(r) /\ MetricsEvaluated(r)) =>
            /\ ProceedTrue(r) =>
                   /\ \A i \in 1..Len(metric_scores[r]) :
                          metric_scores[r][i].score >= 800
                   /\ IsPrefix(ContextsOf(r), <<"custom_evaluation", "summary">>)
                   /\ Terminated(r) =>
                          /\ ContextsOf(r) = <<"custom_evaluation", "summary">>
                          /\ recommendations[r] = QualityIsGood
                   /\ HasReturned(r) => result[r].recommendations = QualityIsGood
            /\ ProceedFalseOrUnusable(r) =>
                   /\ IsPrefix(ContextsOf(r),
                          <<"custom_evaluation", "summary", "recommendations">>)
                   /\ \E i \in 1..Len(metric_scores[r]) :
                          metric_scores[r][i].score < 700
                   /\ Terminated(r) =>
                          ContextsOf(r) =
                              <<"custom_evaluation", "summary", "recommendations">>

\* an accepted content: two calls and the fixed sentence in the result
C29_Witness ==
    \E r \in ReqIds :
        /\ HasReturned(r)
        /\ ProtocolA(r)
        /\ ProceedTrue(r)
        /\ ContextsOf(r) = <<"custom_evaluation", "summary">>
        /\ outcomes[r] = <<"returned", "returned">>
        /\ result[r].recommendations = QualityIsGood
        /\ result[r].metric_scores[1].score = 800

(***************************************************************************)
(* C30: under Protocol A a decoded response with both keys is accepted     *)
(* whatever the types of their values: the base score is 0.85 exactly when *)
(* the value of proceed is truthy (true, a number other than 0, a text     *)
(* that is not empty, such as "false") and 0.35 otherwise (false, 0, null, *)
(* the empty text).  A truthy proceed that is no boolean gives the         *)
(* high-score outcome, not the invalid-format one.                         *)
(***************************************************************************)
TruthyValues ==
    {JBool(TRUE), JNum(1000), JStr(<<"false">>), JStr(<<"no">>), JNaN}

FalsyValues == {JBool(FALSE), JNum(0), JNull, JStr(<<>>)}

BothKeys(r) ==
    /\ ResponseMember(r, "proceed").kind # "absent"
    /\ ResponseMember(r, "reason").kind # "absent"

\* every score is `base` moved by the jitter of the draw and rounded
BaseScore(scores, base) ==
    /\ Len(scores) = 9
    /\ \A i \in 1..9 : scores[i].score >= base - 50 /\ scores[i].score <= base + 50

C30_TruthyProceedAccepted ==
    \A r \in ReqIds :
        (ProtocolA(r) /\ DecodedResponse(r) /\ BothKeys(r)) =>
            LET proceed == ResponseMember(r, "proceed")
                reason == ResponseMember(r, "reason")
                scores == metric_scores[r]
            IN  /\ proceed \in TruthyValues \cup FalsyValues
                /\ proceed \in TruthyValues =>
                       /\ BaseScore(scores, 850)
                       /\ NineScores(scores, 800, 900, 900, None)
                /\ (proceed \in FalsyValues /\ reason.kind \in {"str", "null"}) =>
                       /\ BaseScore(scores, 350)
                       /\ \A i \in 1..9 :
                              /\ scores[i].confidence = 800
                              /\ scores[i].reasoning # Some(InvalidFormatReason)

\* the text "false" as proceed: scores around 0.85, two calls, returned
C30_Witness ==
    \E r \in ReqIds :
        /\ HasReturned(r)
        /\ ProtocolA(r)
        /\ DecodedResponse(r)
        /\ ResponseMember(r, "proceed") = JStr(<<"false">>)
        /\ ResponseMember(r, "reason") = JStr(<<"Title missing">>)
        /\ NineScores(result[r].metric_scores, 800, 900, 900, None)
        /\ result[r].recommendations = QualityIsGood

====
